---- MODULE Spec2Model ----
(***************************************************************************)
(* Model of the mimo-clone learning companion: the validation engine, the  *)
(* input shim, the execution orchestrator, the quality checker, auto-fix   *)
(* and the repair pipeline of the backend, the event-stream reader of the  *)
(* frontend API client (api.generateProject), and the page (app.js): its   *)
(* state object, its handlers, localStorage and the generate dialog.       *)
(*                                                                         *)
(* Each subsystem has its own variables and its own specification; a       *)
(* specification leaves the variables of the other subsystems at the       *)
(* values Idle* gives them.                                                *)
(***************************************************************************)
EXTENDS Integers, Sequences, FiniteSets, TLC

VARIABLES
    \* ---- validation engine: validate(actual, expected)
    vActual, vExpected, vOutcome,
    \* ---- input shim: one shimmed run
    mock_inputs, inputCalls, returned, consumed, runStatus,
    \* ---- execution orchestrator: one execute call
    xRequest, xResult, xSandboxRuns, xValidations,
    \* ---- auto-fix applied twice to one project
    fixInput, fixOnce, fixTwice,
    \* ---- repair pipeline: one generation run
    pstate, project, issues, checked, attempts, events, stored, trail,
    \* ---- api.generateProject: one stream read
    stream, readPos, buffer, projectData, outcome, statusCalls, processed, onStatus, pc,
    \* ---- app.js: the state object, the page, the requests in flight
    server, keyboard, projects, currentLevel, currentProject, currentStep, accumulatedCode,
    stepCompleted, progress, codeInput, nextVisible, feedback,
    runsInFlight, loadsInFlight, listsInFlight, lastMark,
    \* ---- app.js: localStorage, the generate dialog
    storage, dialog,
    \* ---- app.js: what has happened so far, and how much a session may send
    matched, contrib, hiddenNext, sent, asked, latest, limits

validateVars == <<vActual, vExpected, vOutcome>>
shimVars     == <<mock_inputs, inputCalls, returned, consumed, runStatus>>
executeVars  == <<xRequest, xResult, xSandboxRuns, xValidations>>
autoFixVars  == <<fixInput, fixOnce, fixTwice>>
pipelineVars == <<pstate, project, issues, checked, attempts, events, stored, trail>>
streamVars   == <<stream, readPos, buffer, projectData, outcome, statusCalls, processed, onStatus, pc>>
clientVars   == <<server, keyboard, projects, currentLevel, currentProject, currentStep,
                   accumulatedCode, stepCompleted, progress, codeInput, nextVisible, feedback,
                   runsInFlight, loadsInFlight, listsInFlight, lastMark,
                   storage, dialog, matched, contrib, hiddenNext, sent, asked, latest,
                   limits>>

vars == <<validateVars, shimVars, executeVars, autoFixVars, pipelineVars, streamVars,
          clientVars>>

\* what a step of one subsystem leaves alone: the other subsystems
exceptValidate == <<shimVars, executeVars, autoFixVars, pipelineVars, streamVars,
                   clientVars>>
exceptShim     == <<validateVars, executeVars, autoFixVars, pipelineVars, streamVars,
                   clientVars>>
exceptExecute  == <<validateVars, shimVars, autoFixVars, pipelineVars, streamVars,
                   clientVars>>
exceptAutoFix  == <<validateVars, shimVars, executeVars, pipelineVars, streamVars,
                   clientVars>>
exceptPipeline == <<validateVars, shimVars, executeVars, autoFixVars, streamVars,
                   clientVars>>
exceptClient   == <<validateVars, shimVars, executeVars, autoFixVars, pipelineVars,
                   streamVars>>
exceptStream   == <<validateVars, shimVars, executeVars, autoFixVars, pipelineVars,
                   clientVars>>

\* optional values: None, or Some(v) with v = Get(option)
None == <<>>

Some(v) == <<v>>

Get(o) == o[1]

\* ------------------------------------------------------------------ bounds

\* longest actual/expected text the validation engine is tried on
MaxLen == 3

\* longest mock_inputs list of a shimmed run
MaxInputs == 3

\* most statements in the code a learner submits
MaxCode == 2

\* most steps of a generated project
MaxSteps == 2

\* most frames (or stray pieces) of an event stream
MaxFrames == 2

\* steps of a project the learner works through
StepCount == 3

\* most execute requests, project loads and project-list loads of one session
MaxRuns == 2

MaxLoads == 2

MaxLists == 1

\* most level selections of a session in which the learner changes the level
MaxSelects == 2

\* most markStepComplete calls between two looks at localStorage
MaxMarks == 3

\* most steps of a project whose completion is asked for
MaxProjectSteps == 6

\* ------------------------------------------------------------ text helpers

SeqsUpTo(S, n) == UNION {[1..k -> S] : k \in 0..n}

Chars == {"a", "1", ".", " ", "\n"}

Whitespace == {" ", "\n"}

Digits == {"1"}

RECURSIVE LStripSet(_, _)
LStripSet(s, drop) ==
    IF s = <<>> THEN <<>>
    ELSE IF Head(s) \in drop THEN LStripSet(Tail(s), drop) ELSE s

RECURSIVE RStripSet(_, _)
RStripSet(s, drop) ==
    IF s = <<>> THEN <<>>
    ELSE IF s[Len(s)] \in drop THEN RStripSet(SubSeq(s, 1, Len(s) - 1), drop) ELSE s

\* text with every whitespace character removed
RECURSIVE StripAllWhitespace(_)
StripAllWhitespace(s) ==
    IF s = <<>> THEN <<>>
    ELSE IF Head(s) \in Whitespace THEN StripAllWhitespace(Tail(s))
    ELSE <<Head(s)>> \o StripAllWhitespace(Tail(s))

Trim(s) == RStripSet(LStripSet(s, Whitespace), Whitespace)

\* the pieces of s between occurrences of the character sep
RECURSIVE SplitOn(_, _)
SplitOn(s, sep) ==
    IF \A i \in 1..Len(s) : s[i] # sep THEN <<s>>
    ELSE LET k == CHOOSE i \in 1..Len(s) : s[i] = sep /\ \A j \in 1..(i - 1) : s[j] # sep
         IN  <<SubSeq(s, 1, k - 1)>> \o SplitOn(SubSeq(s, k + 1, Len(s)), sep)

RECURSIVE JoinWith(_, _)
JoinWith(parts, sep) ==
    IF parts = <<>> THEN <<>>
    ELSE IF Len(parts) = 1 THEN parts[1]
    ELSE parts[1] \o sep \o JoinWith(Tail(parts), sep)

\* ------------------------------------------------------ validation engine

\* tier 2: outer whitespace trimmed, trailing spaces of every line removed
Normalize(s) ==
    LET ls == SplitOn(Trim(s), "\n")
    IN  JoinWith([i \in 1..Len(ls) |-> RStripSet(ls[i], {" "})], <<"\n">>)

NumChars == Digits \cup {"."}

\* length of the maximal run of number characters at the head of s
RECURSIVE NumRunLen(_)
NumRunLen(s) ==
    IF s = <<>> \/ Head(s) \notin NumChars THEN 0 ELSE 1 + NumRunLen(Tail(s))

IsNumber(run) ==
    /\ \E i \in 1..Len(run) : run[i] \in Digits
    /\ Cardinality({i \in 1..Len(run) : run[i] = "."}) <= 1

\* the text with every numeric substring replaced by "#"
RECURSIVE Skeleton(_)
Skeleton(s) ==
    IF s = <<>> THEN <<>>
    ELSE LET n == NumRunLen(s)
         IN  IF n = 0 THEN <<Head(s)>> \o Skeleton(Tail(s))
             ELSE IF IsNumber(SubSeq(s, 1, n))
                  THEN <<"#">> \o Skeleton(SubSeq(s, n + 1, Len(s)))
                  ELSE SubSeq(s, 1, n) \o Skeleton(SubSeq(s, n + 1, Len(s)))

\* the numeric substrings of the text, in order
RECURSIVE NumberRuns(_)
NumberRuns(s) ==
    IF s = <<>> THEN <<>>
    ELSE LET n == NumRunLen(s)
         IN  IF n = 0 THEN NumberRuns(Tail(s))
             ELSE IF IsNumber(SubSeq(s, 1, n))
                  THEN <<SubSeq(s, 1, n)>> \o NumberRuns(SubSeq(s, n + 1, Len(s)))
                  ELSE NumberRuns(SubSeq(s, n + 1, Len(s)))

RECURSIVE Pow10(_)
Pow10(n) == IF n = 0 THEN 1 ELSE 10 * Pow10(n - 1)

DigitValue(c) == IF c = "1" THEN 1 ELSE 0

RECURSIVE ToInt(_)
ToInt(ds) == IF ds = <<>> THEN 0 ELSE 10 * ToInt(SubSeq(ds, 1, Len(ds) - 1)) + DigitValue(ds[Len(ds)])

\* fraction digits kept when a number is parsed (fixed point)
FracDigits == MaxLen + 1

\* the value of a numeric substring, in units of 10^-FracDigits
ParseNumber(run) ==
    LET dots == {i \in 1..Len(run) : run[i] = "."}
        d    == IF dots = {} THEN Len(run) + 1 ELSE CHOOSE i \in dots : TRUE
        ip   == SubSeq(run, 1, d - 1)
        fp   == SubSeq(run, d + 1, Len(run))
    IN  ToInt(ip) * Pow10(FracDigits) + ToInt(fp) * Pow10(FracDigits - Len(fp))

\* absolute tolerance of the float tier: 1e-3
FloatTolerance == Pow10(FracDigits) \div 1000

Abs(x) == IF x < 0 THEN -x ELSE x

\* tier 3: same text around the numbers, numbers pairwise within tolerance
FloatTolerantMatch(actual, expected) ==
    LET a  == Normalize(actual)
        e  == Normalize(expected)
        na == NumberRuns(a)
        ne == NumberRuns(e)
    IN  /\ na # <<>>
        /\ Skeleton(a) = Skeleton(e)
        /\ Len(na) = Len(ne)
        /\ \A i \in 1..Len(na) :
               Abs(ParseNumber(na[i]) - ParseNumber(ne[i])) <= FloatTolerance

\* graduated feedback; the similarity ladder is kept as one "mismatch" rung
Feedback(actual, match) ==
    IF match THEN "correct"
    ELSE IF actual = <<>> THEN "no_output"
    ELSE "mismatch"

Outcome(tier, actual) ==
    [tier |-> tier, match |-> tier # "none", feedback |-> Feedback(actual, tier # "none")]

\* a validation engine that forgot the whitespace-normalized tier
validateSkipNormalized(actual, expected) ==
    IF actual = expected THEN Outcome("exact", actual)
    ELSE IF FloatTolerantMatch(actual, expected) THEN Outcome("float_tolerant", actual)
    ELSE Outcome("none", actual)

\* validate(actual, expected) -> ValidationOutcome: ordered tiers, first success
validate(actual, expected) ==
    IF actual = expected THEN Outcome("exact", actual)
    ELSE IF Normalize(actual) = Normalize(expected) THEN Outcome("normalized", actual)
    ELSE IF FloatTolerantMatch(actual, expected) THEN Outcome("float_tolerant", actual)
    ELSE Outcome("none", actual)

Texts == SeqsUpTo(Chars, MaxLen)

IdleValidate == vActual = <<>> /\ vExpected = <<>> /\ vOutcome = None

StartValidate == vActual \in Texts /\ vExpected \in Texts /\ vOutcome = None

Validate ==
    /\ vOutcome = None
    /\ vOutcome' = Some(validate(vActual, vExpected))
    /\ UNCHANGED <<vActual, vExpected, exceptValidate>>


\* ------------------------------------------------ input/determinism shim

MockValues == {"Alice", "25"}

\* a shim that masks exhaustion: it hands back an empty string and runs on
ShimInputMasking(inputs, idx) ==
    IF idx < Len(inputs)
    THEN [ok |-> TRUE, value |-> inputs[idx + 1], idx |-> idx + 1]
    ELSE [ok |-> TRUE, value |-> "", idx |-> idx]

\* the shim's replacement of input(): the next unconsumed value, or a runtime
\* error when the list is exhausted.  idx is the number of values consumed.
ShimInput(inputs, idx) ==
    IF idx < Len(inputs)
    THEN [ok |-> TRUE, value |-> inputs[idx + 1], idx |-> idx + 1]
    ELSE [ok |-> FALSE, value |-> "", idx |-> idx]

IdleShim ==
    /\ mock_inputs = <<>> /\ inputCalls = 0 /\ returned = <<>>
    /\ consumed = <<>> /\ runStatus = "idle"

StartShim ==
    /\ mock_inputs \in SeqsUpTo(MockValues, MaxInputs)
    /\ inputCalls = 0
    /\ returned = <<>>
    /\ consumed = <<>>
    /\ runStatus = "running"

\* the user code calls input() once more
InputCall ==
    /\ runStatus = "running"
    /\ LET r == ShimInput(mock_inputs, Len(consumed))
       IN  /\ inputCalls' = inputCalls + 1
           /\ IF r.ok
              THEN /\ returned' = Append(returned, r.value)
                   /\ consumed' = Append(consumed, r.idx)
                   /\ runStatus' = "running"
              ELSE /\ runStatus' = "failed"
                   /\ UNCHANGED <<returned, consumed>>
    /\ UNCHANGED <<mock_inputs, exceptShim>>

\* the user code runs to its end
ProgramExit ==
    /\ runStatus = "running"
    /\ runStatus' = "exited"
    /\ UNCHANGED <<mock_inputs, inputCalls, returned, consumed, exceptShim>>

\* ------------------------------------------------------ isolation backend

\* Statements of the programs that are run.  print writes a line; input prompts
\* and reads one value through the shim; print_apos is a print whose
\* single-quoted literal holds an apostrophe (a syntax error); raise crashes;
\* hang never returns (the wall-clock timeout ends it).
ProjectStmts == {"print", "input", "print_apos", "raise"}

LearnerStmts == ProjectStmts \cup {"hang"}

PrintOut == <<"a", "\n">>

PromptOut == <<"?", " ">>

RunResult(stdout, stderr, clean, timedOut) ==
    [stdout |-> stdout, stderr |-> stderr, exited_cleanly |-> clean, timed_out |-> timedOut]

RECURSIVE RunFrom(_, _, _, _)
RunFrom(code, inputs, idx, out) ==
    IF code = <<>> THEN RunResult(out, "", TRUE, FALSE)
    ELSE LET st == Head(code)
         IN  IF st = "print" THEN RunFrom(Tail(code), inputs, idx, out \o PrintOut)
             ELSE IF st = "input"
                  THEN LET r == ShimInput(inputs, idx)
                       IN  IF r.ok THEN RunFrom(Tail(code), inputs, r.idx, out \o PromptOut)
                           ELSE RunResult(out \o PromptOut, "IndexError", FALSE, FALSE)
             ELSE IF st = "raise" THEN RunResult(out, "Exception", FALSE, FALSE)
             ELSE RunResult(out, "", FALSE, TRUE)

\* run(source, ...) through the shim -> (stdout, stderr, exited_cleanly, timed_out)
run(code, inputs) ==
    IF \E i \in 1..Len(code) : code[i] = "print_apos"
    THEN RunResult(<<>>, "SyntaxError", FALSE, FALSE)
    ELSE RunFrom(code, inputs, 0, <<>>)

\* ------------------------------------------------- execution orchestrator

TimeoutMessage == "Execution timed out"

ExecutionResult(r, v, runs, validations) ==
    [output      |-> r.stdout,
     error       |-> IF r.timed_out THEN TimeoutMessage ELSE r.stderr,
     success     |-> r.exited_cleanly /\ ~r.timed_out,
     match       |-> v.match,
     feedback    |-> v.feedback,
     sandboxRuns |-> runs,
     validations |-> validations]

NoValidation == [tier |-> "none", match |-> FALSE, feedback |-> "error"]

\* an orchestrator that validates whatever the failed run printed
executeValidatingFailedRuns(step, code, accumulated_code) ==
    LET r == run(accumulated_code \o code, step.mock_inputs)
    IN  ExecutionResult(r, validate(r.stdout, step.expected_output), 1, 1)

\* execute(project_id, step_num, code, accumulated_code) -> ExecutionResult,
\* the step looked up from project_id and step_num
execute(step, code, accumulated_code) ==
    LET r == run(accumulated_code \o code, step.mock_inputs)
    IN  IF r.exited_cleanly /\ ~r.timed_out
        THEN ExecutionResult(r, validate(r.stdout, step.expected_output), 1, 1)
        ELSE ExecutionResult(r, NoValidation, 1, 0)

Programs(stmts, n) == SeqsUpTo(stmts, n)

ExpectedOutputs ==
    {run(c, m).stdout : c \in Programs(LearnerStmts, MaxCode + 1),
                        m \in SeqsUpTo({"Alice"}, 1)}

IdleExecute == xRequest = None /\ xResult = None /\ xSandboxRuns = 0 /\ xValidations = 0

StartExecute ==
    /\ xRequest \in [step             : [mock_inputs : SeqsUpTo({"Alice"}, 1),
                                         expected_output : ExpectedOutputs],
                     code             : Programs(LearnerStmts, MaxCode),
                     accumulated_code : Programs({"print", "input"}, 1)]
    /\ xResult = None
    /\ xSandboxRuns = 0
    /\ xValidations = 0

Execute ==
    /\ xResult = None
    /\ LET res == execute(xRequest.step, xRequest.code, xRequest.accumulated_code)
       IN  /\ xResult' = Some([f \in {"output", "error", "success", "match", "feedback"} |-> res[f]])
           /\ xSandboxRuns' = xSandboxRuns + res.sandboxRuns
           /\ xValidations' = xValidations + res.validations
    /\ UNCHANGED <<xRequest, exceptExecute>>


\* ---------------------------------------------------------------- projects

\* A step keeps the fields the quality checker and auto-fix read: solution is
\* the code this step adds, instruction is whether the text matches one of the
\* vague-language patterns.
WrongOutput == <<"7", "\n">>

StepBodies ==
    [instruction     : {"exact", "vague"},
     solution        : {<<st>> : st \in ProjectStmts},
     mock_inputs     : SeqsUpTo({"Alice"}, 1),
     expected_output : {PrintOut, WrongOutput}]

Numbered(bodies) ==
    [n \in 1..Len(bodies) |->
        [step_num        |-> n,
         instruction     |-> bodies[n].instruction,
         solution        |-> bodies[n].solution,
         mock_inputs     |-> bodies[n].mock_inputs,
         expected_output |-> bodies[n].expected_output]]

Project(bodies, full) == [steps |-> Numbered(bodies), full_solution |-> full]

\* every project of at most MaxSteps steps, right or wrong
Projects ==
    {Project(b, f) : b \in UNION {[1..n -> StepBodies] : n \in 1..MaxSteps},
                     f \in {<<>>, <<"print">>, <<"print", "print">>}}

RECURSIVE JoinSolutions(_, _)
JoinSolutions(steps, n) ==
    IF n = 0 THEN <<>> ELSE JoinSolutions(steps, n - 1) \o steps[n].solution

\* the code of steps 1..n: what a learner has accumulated when step n runs
Cumulative(p, n) == JoinSolutions(p.steps, n)

InputCount(code) == Cardinality({i \in 1..Len(code) : code[i] = "input"})

\* ---------------------------------------------------------- quality checker

IssueIf(cond, issue) == IF cond THEN {issue} ELSE {}

StepIssues(p, n) ==
    LET step == p.steps[n]
        r    == run(Cumulative(p, n), step.mock_inputs)
        ran  == r.exited_cleanly /\ ~r.timed_out
    IN  IssueIf(~ran, <<"execution_failed", n>>)
        \cup IssueIf(ran /\ ~validate(r.stdout, step.expected_output).match,
                     <<"output_mismatch", n>>)
        \cup IssueIf(step.instruction = "vague", <<"vague_instruction", n>>)
        \cup IssueIf(InputCount(step.solution) > 0 /\ step.mock_inputs = <<>>,
                     <<"missing_mock_inputs", n>>)

\* check(project) -> the quality issues; empty iff the project is acceptable
check(p) ==
    UNION {StepIssues(p, n) : n \in 1..Len(p.steps)}
    \cup IssueIf(p.full_solution # Cumulative(p, Len(p.steps)), <<"full_solution_mismatch", 0>>)

\* ------------------------------------------------------------------ auto-fix

NormalizeQuotes(code) ==
    [i \in 1..Len(code) |-> IF code[i] = "print_apos" THEN "print" ELSE code[i]]

Placeholder == "test"

RECURSIVE Pad(_, _)
Pad(inputs, n) == IF Len(inputs) >= n THEN inputs ELSE Pad(Append(inputs, Placeholder), n)

FixQuotes(p) ==
    [p EXCEPT !.steps = [n \in 1..Len(p.steps) |->
        [p.steps[n] EXCEPT !.solution = NormalizeQuotes(@)]]]

BackfillMockInputs(p) ==
    [p EXCEPT !.steps = [n \in 1..Len(p.steps) |->
        [p.steps[n] EXCEPT !.mock_inputs = Pad(@, InputCount(Cumulative(p, n)))]]]

RebuildFullSolution(p) == [p EXCEPT !.full_solution = Cumulative(p, Len(p.steps))]

RecomputeExpectedOutputs(p) ==
    [p EXCEPT !.steps = [n \in 1..Len(p.steps) |->
        LET r == run(Cumulative(p, n), p.steps[n].mock_inputs)
        IN  IF r.exited_cleanly /\ ~r.timed_out
            THEN [p.steps[n] EXCEPT !.expected_output = r.stdout]
            ELSE p.steps[n]]]

\* an auto-fix that re-executes the steps before it has repaired their code
autoFixOutputsFirst(p) ==
    RebuildFullSolution(BackfillMockInputs(FixQuotes(RecomputeExpectedOutputs(p))))

\* auto-fix: pure and deterministic, a whole new revision of the project
autoFix(p) ==
    RecomputeExpectedOutputs(RebuildFullSolution(BackfillMockInputs(FixQuotes(p))))


IdleAutoFix == fixInput = None /\ fixOnce = None /\ fixTwice = None

StartAutoFix == fixInput \in {Some(p) : p \in Projects} /\ fixOnce = None /\ fixTwice = None

AutoFixOnce ==
    /\ fixOnce = None
    /\ fixOnce' = Some(autoFix(Get(fixInput)))
    /\ UNCHANGED <<fixInput, fixTwice, exceptAutoFix>>

AutoFixAgain ==
    /\ fixOnce # None
    /\ fixTwice = None
    /\ fixTwice' = Some(autoFix(Get(fixOnce)))
    /\ UNCHANGED <<fixInput, fixOnce, exceptAutoFix>>


\* ------------------------------------------------------------ repair pipeline

\* "up to 2 Claude repair attempts"
MaxRepairAttempts == 2

\* What the external generation service may hand back: projects of every
\* shape, with and without each kind of defect.
ServiceProject(stmts, instruction, guess, mocks, full) ==
    LET code(n) == [i \in 1..n |-> stmts[i]]
        given(n) == IF mocks = "given"
                    THEN [i \in 1..InputCount(code(n)) |-> "Alice"]
                    ELSE <<>>
    IN  [steps |-> [n \in 1..Len(stmts) |->
                      [step_num        |-> n,
                       instruction     |-> instruction,
                       solution        |-> <<stmts[n]>>,
                       mock_inputs     |-> given(n),
                       expected_output |-> IF guess = "right"
                                           THEN run(code(n), given(n)).stdout
                                           ELSE WrongOutput]],
         full_solution |-> IF full = "joined" THEN stmts ELSE <<>>]

ServicePool ==
    {ServiceProject(stmts, i, g, m, f) :
        stmts \in UNION {[1..n -> ProjectStmts] : n \in 1..MaxSteps},
        i \in {"exact", "vague"}, g \in {"right", "wrong"},
        m \in {"given", "missing"}, f \in {"joined", "stale"}}

\* a call of the generation service: a project, or a fault (the call fails or
\* its answer cannot be parsed)
ServiceAnswers == {Some(p) : p \in ServicePool} \cup {None}

Terminal == {"accepted", "rejected", "aborted"}

AutoFixed == \E i \in 1..Len(trail) : trail[i] = "auto_fixed"

\* the guards of the pipeline's steps
CanCheck == pstate \in {"generated", "auto_fixed", "ai_repaired"}

CanAutoFix == pstate = "quality_checked" /\ issues # {} /\ ~AutoFixed

CanAiRepair ==
    pstate = "quality_checked" /\ issues # {} /\ AutoFixed /\ attempts < MaxRepairAttempts

CanAccept == pstate = "quality_checked" /\ issues = {}

CanReject ==
    pstate = "quality_checked" /\ issues # {} /\ AutoFixed /\ attempts >= MaxRepairAttempts

IdlePipeline ==
    /\ pstate = "idle" /\ project = None /\ issues = {} /\ checked = None
    /\ attempts = 0 /\ events = <<>> /\ stored = None /\ trail = <<>>

StartPipeline ==
    /\ pstate = "start" /\ project = None /\ issues = {} /\ checked = None
    /\ attempts = 0 /\ events = <<>> /\ stored = None /\ trail = <<>>

\* the generation call: a candidate project, or a fault that ends the run
Generate ==
    /\ pstate = "start"
    /\ \E answer \in ServiceAnswers :
          IF answer # None
          THEN /\ project' = answer
               /\ pstate' = "generated"
               /\ events' = <<"generating">>
               /\ trail' = <<"generated">>
          ELSE /\ project' = None
               /\ pstate' = "aborted"
               /\ events' = <<"generating", "error">>
               /\ trail' = <<"aborted">>
    /\ UNCHANGED <<issues, checked, attempts, stored, exceptPipeline>>

\* a quality check that announces itself every time it runs
QualityCheckAnnounced ==
    /\ CanCheck
    /\ issues' = check(Get(project))
    /\ checked' = project
    /\ pstate' = "quality_checked"
    /\ events' = events \o (IF pstate = "generated" THEN <<"validating">> ELSE <<>>)
                        \o <<"quality_check">>
    /\ trail' = Append(trail, "quality_checked")
    /\ UNCHANGED <<project, attempts, stored, exceptPipeline>>

\* the quality check of the current revision; the first one is announced
QualityCheck ==
    /\ CanCheck
    /\ issues' = check(Get(project))
    /\ checked' = project
    /\ pstate' = "quality_checked"
    /\ events' = events \o (IF pstate = "generated"
                            THEN <<"validating", "quality_check">> ELSE <<>>)
    /\ trail' = Append(trail, "quality_checked")
    /\ UNCHANGED <<project, attempts, stored, exceptPipeline>>

\* issues found and auto-fix not yet tried: the deterministic fixes
AutoFix ==
    /\ CanAutoFix
    /\ project' = Some(autoFix(Get(project)))
    /\ pstate' = "auto_fixed"
    /\ events' = Append(events, "repairing")
    /\ trail' = Append(trail, "auto_fixed")
    /\ UNCHANGED <<issues, checked, attempts, stored, exceptPipeline>>

\* an AI repair whose service fault ends the run at once
AiRepairAbortingOnFault ==
    /\ CanAiRepair
    /\ attempts' = attempts + 1
    /\ \E answer \in ServiceAnswers :
          IF answer # None
          THEN /\ project' = answer
               /\ pstate' = "ai_repaired"
               /\ events' = Append(events, "claude_repair")
               /\ trail' = Append(trail, "ai_repaired")
          ELSE /\ project' = project
               /\ pstate' = "rejected"
               /\ events' = events \o <<"claude_repair", "error">>
               /\ trail' = trail \o <<"ai_fault", "rejected">>
    /\ UNCHANGED <<issues, checked, stored, exceptPipeline>>

\* an AI repair whose service fault is not counted against the budget
AiRepairFaultUncounted ==
    /\ CanAiRepair
    /\ events' = Append(events, "claude_repair")
    /\ \E answer \in ServiceAnswers :
          IF answer # None
          THEN /\ project' = answer
               /\ pstate' = "ai_repaired"
               /\ attempts' = attempts + 1
               /\ trail' = Append(trail, "ai_repaired")
          ELSE /\ project' = project
               /\ pstate' = "quality_checked"
               /\ attempts' = attempts
               /\ trail' = Append(trail, "ai_fault")
    /\ UNCHANGED <<issues, checked, stored, exceptPipeline>>

\* issues left after auto-fix and attempts left: one AI-repair attempt.  The
\* answer is untrusted; a fault leaves the project as it was and costs the attempt.
AiRepair ==
    /\ CanAiRepair
    /\ attempts' = attempts + 1
    /\ events' = Append(events, "claude_repair")
    /\ \E answer \in ServiceAnswers :
          IF answer # None
          THEN /\ project' = answer
               /\ pstate' = "ai_repaired"
               /\ trail' = Append(trail, "ai_repaired")
          ELSE /\ project' = project
               /\ pstate' = "quality_checked"
               /\ trail' = Append(trail, "ai_fault")
    /\ UNCHANGED <<issues, checked, stored, exceptPipeline>>

\* an accept that takes the repaired project as it comes back
AcceptUnchecked ==
    /\ CanAccept \/ pstate = "ai_repaired"
    /\ pstate' = "accepted"
    /\ stored' = project
    /\ events' = events \o <<"saving", "done">>
    /\ trail' = Append(trail, "accepted")
    /\ UNCHANGED <<project, issues, checked, attempts, exceptPipeline>>

\* no issues: the project is accepted, handed to storage and returned
Accept ==
    /\ CanAccept
    /\ pstate' = "accepted"
    /\ stored' = project
    /\ events' = events \o <<"saving", "done">>
    /\ trail' = Append(trail, "accepted")
    /\ UNCHANGED <<project, issues, checked, attempts, exceptPipeline>>

\* a reject that still hands the candidate to storage
RejectPersisting ==
    /\ CanReject
    /\ pstate' = "rejected"
    /\ stored' = project
    /\ events' = events \o <<"saving", "error">>
    /\ trail' = Append(trail, "rejected")
    /\ UNCHANGED <<project, issues, checked, attempts, exceptPipeline>>

\* issues left and no attempt left: the candidate is rejected
Reject ==
    /\ CanReject
    /\ pstate' = "rejected"
    /\ events' = Append(events, "error")
    /\ trail' = Append(trail, "rejected")
    /\ UNCHANGED <<project, issues, checked, attempts, stored, exceptPipeline>>

\* ------------------------------------------------------ api.generateProject

\* The response body is text; it is modelled as a sequence of tokens: "\n", the
\* frame prefix "data: ", and one token per payload.  A payload token is the
\* JSON text of an event, the JSON text null, or text that is not JSON.
DataPrefix == "data: "

EventOf(token) ==
    CASE token = "done1" -> [status |-> "done",   project |-> "p1", message |-> ""]
      [] token = "done2" -> [status |-> "done",   project |-> "p2", message |-> ""]
      [] token = "done0" -> [status |-> "done",   project |-> "",   message |-> ""]
      [] token = "err1"  -> [status |-> "error",  project |-> "",   message |-> "m1"]
      [] token = "err2"  -> [status |-> "error",  project |-> "",   message |-> "m2"]
      [] token = "st1"   -> [status |-> "saving", project |-> "",   message |-> "s1"]
      [] token = "st2"   -> [status |-> "repairing", project |-> "", message |-> "s2"]

ObjectTokens == {"done1", "done2", "done0", "err1", "err2", "st1", "st2"}

JsonTokens == ObjectTokens \cup {"null"}

PayloadTokens == JsonTokens \cup {"garbage"}

\* s.split('\n\n'): the pieces between the non-overlapping "\n\n", left to right
RECURSIVE SplitFrames(_)
SplitFrames(s) ==
    IF \A i \in 1..(Len(s) - 1) : ~(s[i] = "\n" /\ s[i + 1] = "\n") THEN <<s>>
    ELSE LET k == CHOOSE i \in 1..(Len(s) - 1) :
                      /\ s[i] = "\n" /\ s[i + 1] = "\n"
                      /\ \A j \in 1..(i - 1) : ~(s[j] = "\n" /\ s[j + 1] = "\n")
         IN  <<SubSeq(s, 1, k - 1)>> \o SplitFrames(SubSeq(s, k + 2, Len(s)))

\* part.trim().startsWith('data: ')
HasDataPrefix(part) == Trim(part) # <<>> /\ Head(Trim(part)) = DataPrefix

\* trimmed.slice(6)
JsonStr(part) == Tail(Trim(part))

\* JSON.parse(jsonStr): one JSON text, whitespace around it allowed; None when
\* it throws
JsonParse(jsonStr) ==
    LET t == Trim(jsonStr)
    IN  IF Len(t) = 1 /\ t[1] \in JsonTokens THEN Some(t[1]) ELSE None

\* The state of the read loop that one frame can change.  thrown is the
\* exception that left the function, if any.
LoopState(pd, calls, seen, thrown) ==
    [projectData |-> pd, statusCalls |-> calls, processed |-> seen, thrown |-> thrown]

NoProject == ""

\* a loop body that lets the SyntaxError of JSON.parse leave the function
ProcessPartAbortingOnMalformed(st, part, hasCallback) ==
    IF st.thrown # None THEN st
    ELSE IF ~HasDataPrefix(part) THEN st
    ELSE LET parsed == JsonParse(JsonStr(part))
         IN  IF parsed = None
             THEN LoopState(st.projectData, st.statusCalls, st.processed, Some("SyntaxError"))
             ELSE LET token == Get(parsed)
                      seen  == Append(st.processed, token)
                  IN  IF token = "null"
                      THEN LoopState(st.projectData, st.statusCalls, seen, Some("TypeError"))
                      ELSE LET event == EventOf(token)
                           IN  IF event.status = "done"
                               THEN LoopState(event.project, st.statusCalls, seen, None)
                               ELSE IF event.status = "error"
                               THEN LoopState(st.projectData, st.statusCalls, seen,
                                              Some(event.message))
                               ELSE IF hasCallback
                               THEN LoopState(st.projectData, Append(st.statusCalls, token),
                                              seen, None)
                               ELSE LoopState(st.projectData, st.statusCalls, seen, None)

\* the body of `for (const part of parts)` for one part
ProcessPart(st, part, hasCallback) ==
    IF st.thrown # None THEN st
    ELSE IF ~HasDataPrefix(part) THEN st
    ELSE LET parsed == JsonParse(JsonStr(part))
         IN  IF parsed = None THEN st
             ELSE LET token == Get(parsed)
                      seen  == Append(st.processed, token)
                  IN  IF token = "null"
                      THEN LoopState(st.projectData, st.statusCalls, seen, Some("TypeError"))
                      ELSE LET event == EventOf(token)
                           IN  IF event.status = "done"
                               THEN LoopState(event.project, st.statusCalls, seen, None)
                               ELSE IF event.status = "error"
                               THEN LoopState(st.projectData, st.statusCalls, seen,
                                              Some(event.message))
                               ELSE IF hasCallback
                               THEN LoopState(st.projectData, Append(st.statusCalls, token),
                                              seen, None)
                               ELSE LoopState(st.projectData, st.statusCalls, seen, None)

RECURSIVE ProcessParts(_, _, _)
ProcessParts(st, parts, hasCallback) ==
    IF parts = <<>> THEN st
    ELSE ProcessParts(ProcessPart(st, Head(parts), hasCallback), Tail(parts), hasCallback)

\* "Process any remaining buffer": the parse, the TypeError of a null event and
\* the throw of an error frame all sit inside try { } catch (_) {}
ProcessRemaining(st, remaining) ==
    IF ~HasDataPrefix(remaining) THEN st
    ELSE LET parsed == JsonParse(JsonStr(remaining))
         IN  IF parsed = None \/ parsed = Some("null") THEN st
             ELSE LET event == EventOf(Get(parsed))
                      seen  == Append(st.processed, Get(parsed))
                  IN  IF event.status = "done"
                      THEN LoopState(event.project, st.statusCalls, seen, None)
                      ELSE LoopState(st.projectData, st.statusCalls, seen, None)

Resolved(projectValue) == [kind |-> "resolved", value |-> projectValue]

Rejected(message) == [kind |-> "rejected", value |-> message]

NoProjectMessage == "No project data received from stream"

\* the streams that are read: up to MaxFrames pieces, each a terminated frame
\* with some payload, a terminated payload without the prefix, or a stray
\* newline; the end of the last piece may be cut off
Pieces ==
    {<<DataPrefix, w, "\n", "\n">> : w \in PayloadTokens}
    \cup {<<"st1", "\n", "\n">>, <<"\n">>}

RECURSIVE Concat(_)
Concat(seqs) == IF seqs = <<>> THEN <<>> ELSE Head(seqs) \o Concat(Tail(seqs))

Streams ==
    {SubSeq(Concat(ps), 1, Len(Concat(ps)) - cut) :
        ps \in SeqsUpTo(Pieces, MaxFrames), cut \in 0..2}

IdleStream ==
    /\ stream = <<>> /\ readPos = 0 /\ buffer = <<>> /\ projectData = NoProject
    /\ outcome = None /\ statusCalls = <<>> /\ processed = <<>> /\ onStatus = FALSE
    /\ pc = "idle"

StartStream ==
    /\ stream \in Streams
    /\ onStatus \in BOOLEAN
    /\ readPos = 0 /\ buffer = <<>> /\ projectData = NoProject
    /\ outcome = None /\ statusCalls = <<>> /\ processed = <<>>
    /\ pc = "fetch"

\* the message of a response that is not ok: the status line, or body.detail
HttpErrors == {"POST /generate/project: 500", "detail"}

\* await fetch(...): the response arrives; a response that is not ok rejects
FetchResponse ==
    /\ pc = "fetch"
    /\ \E response \in {"ok"} \cup HttpErrors :
          IF response = "ok"
          THEN pc' = "read" /\ outcome' = None
          ELSE pc' = "refused" /\ outcome' = Some(Rejected(response))
    /\ UNCHANGED <<stream, readPos, buffer, projectData, statusCalls, processed, onStatus,
                   exceptStream>>

\* a buffer that holds the new chunk only
BufferedChunkOnly(kept, chunk) == chunk

\* buffer += decoder.decode(value, { stream: true })
Buffered(kept, chunk) == kept \o chunk

\* one turn of the while loop with done = false: a chunk of any size arrives
ReadChunk ==
    /\ pc = "read"
    /\ readPos < Len(stream)
    /\ \E n \in 1..(Len(stream) - readPos) :
          LET text  == Buffered(buffer, SubSeq(stream, readPos + 1, readPos + n))
              parts == SplitFrames(text)
              st    == ProcessParts(LoopState(projectData, statusCalls, processed, None),
                                    SubSeq(parts, 1, Len(parts) - 1), onStatus)
          IN  /\ readPos' = readPos + n
              /\ buffer' = parts[Len(parts)]
              /\ projectData' = st.projectData
              /\ statusCalls' = st.statusCalls
              /\ processed' = st.processed
              /\ IF st.thrown # None
                 THEN pc' = "settled" /\ outcome' = Some(Rejected(Get(st.thrown)))
                 ELSE pc' = "read" /\ outcome' = None
    /\ UNCHANGED <<stream, onStatus, exceptStream>>

\* a result that returns whatever projectData holds
ReturnUnchecked(pd) == Some(Resolved(pd))

\* if (!projectData) throw ...; return projectData
ReturnOrThrow(pd) ==
    IF pd = NoProject THEN Some(Rejected(NoProjectMessage)) ELSE Some(Resolved(pd))

\* reader.read() answers done: the remaining buffer, then the result
StreamClosed ==
    /\ pc = "read"
    /\ readPos = Len(stream)
    /\ LET st == ProcessRemaining(LoopState(projectData, statusCalls, processed, None), buffer)
       IN  /\ projectData' = st.projectData
           /\ statusCalls' = st.statusCalls
           /\ processed' = st.processed
           /\ outcome' = IF st.thrown # None THEN Some(Rejected(Get(st.thrown)))
                         ELSE ReturnOrThrow(st.projectData)
    /\ pc' = "settled"
    /\ UNCHANGED <<stream, readPos, buffer, onStatus, exceptStream>>

\* ------------------------------------------------------------------ app.js

\* Project ids are text; `level${levelId}_${tierName}_${name}` is a sequence of
\* tokens, so that startsWith is a comparison of prefixes.
LevelText(levelId) == <<"0", "1", "2", "3", "4", "5", "6", "7", "8", "9">>[levelId + 1]

tierNames == [t \in {1, 2, 3} |-> <<"basic", "intermediate", "capstone">>[t]]

IdOf(levelId, tier, name) == <<"level", LevelText(levelId), "_", tierNames[tier], "_", name>>

StartsWith(text, prefix) ==
    Len(text) >= Len(prefix) /\ SubSeq(text, 1, Len(prefix)) = prefix

LevelOf(id) == CHOOSE l \in 0..9 : LevelText(l) = id[2]

TierOf(id) == CHOOSE t \in {1, 2, 3} : tierNames[t] = id[4]

\* the reference solution of the i-th step, one line of code
SolutionLines == <<"s1", "s2", "s3", "s4", "s5", "s6", "s7", "s8">>

\* GET /projects/{id}: the project with all its steps
ProjectOf(id, stepCount) ==
    [id |-> id,
     steps |-> [i \in 1..stepCount |-> [step_num |-> i, solution |-> <<SolutionLines[i]>>]]]

\* GET /projects?level=L: the list entries, with the steps or without them
ListOf(store, levelId, withSteps) ==
    LET ids == {id \in DOMAIN store : LevelOf(id) = levelId}
        entry(id) == [id |-> id, tier |-> TierOf(id),
                      steps |-> IF withSteps THEN Some(store[id]) ELSE None]
    IN  {entry(id) : id \in ids}

\* what the learner types in a session: blanks and a line, or two lines
Keyboards == {{<<" ">>, <<"a">>}, {<<"a">>, <<"b">>}}

NoProgress == <<>>

HasProgress(prog, projectId) == projectId \in DOMAIN prog

\* a markStepComplete that starts the entry anew with the step number
markStepCompleteReplacing(prog, projectId, stepNum) ==
    [id \in DOMAIN prog \cup {projectId} |->
        IF id = projectId THEN {stepNum} ELSE prog[id]]

\* markStepComplete: the entry is created when missing, the step number added
markStepComplete(prog, projectId, stepNum) ==
    LET old == IF HasProgress(prog, projectId) THEN prog[projectId] ELSE {}
    IN  [id \in DOMAIN prog \cup {projectId} |->
            IF id = projectId THEN old \cup {stepNum} ELSE prog[id]]

isStepCompleted(prog, projectId, stepNum) ==
    HasProgress(prog, projectId) /\ stepNum \in prog[projectId]

\* a resume point that counts the completed steps
findFirstIncompleteStepCounting(proj, prog) ==
    LET done == {i \in 1..Len(proj.steps) :
                    isStepCompleted(prog, proj.id, proj.steps[i].step_num)}
    IN  IF Cardinality(done) = Len(proj.steps) THEN 0 ELSE Cardinality(done)

\* the index (from 0) of the first step that is not completed, 0 when there is
\* none
findFirstIncompleteStep(proj, prog) ==
    LET open == {i \in 1..Len(proj.steps) :
                    ~isStepCompleted(prog, proj.id, proj.steps[i].step_num)}
    IN  IF open = {} THEN 0
        ELSE (CHOOSE i \in open : \A j \in open : i <= j) - 1

\* the steps below stepIndex that are completed, in step order
RECURSIVE CompletedBelow(_, _, _)
CompletedBelow(proj, stepIndex, prog) ==
    IF stepIndex = 0 THEN <<>>
    ELSE LET step == proj.steps[stepIndex]
         IN  CompletedBelow(proj, stepIndex - 1, prog)
             \o (IF isStepCompleted(prog, proj.id, step.step_num) THEN <<step>> ELSE <<>>)

\* a buildAccumulatedCode that keeps only the solution of the last step
buildAccumulatedCodeLastOnly(proj, stepIndex, prog) ==
    LET done == CompletedBelow(proj, stepIndex, prog)
    IN  IF done = <<>> THEN <<>> ELSE done[Len(done)].solution

buildAccumulatedCode(proj, stepIndex, prog) ==
    JoinWith([i \in 1..Len(CompletedBelow(proj, stepIndex, prog)) |->
                 CompletedBelow(proj, stepIndex, prog)[i].solution], <<"\n">>)

\* a nextStep that glues the code on without the newline
AppendCodeGlued(accumulated, code) == accumulated \o code

\* accumulatedCode ? accumulatedCode + '\n' + code : code
AppendCode(accumulated, code) ==
    IF accumulated # <<>> THEN accumulated \o <<"\n">> \o code ELSE code

\* ---- app.js: localStorage.  The value under the key 'mimo_progress' is
\* JSON text, a sequence of tokens: the punctuation, the words of a key and the
\* decimal digits of a number.

DecimalDigits == <<"0", "1", "2", "3", "4", "5", "6", "7", "8", "9">>

\* a number as JSON.stringify writes it
RECURSIVE NumberText(_)
NumberText(n) ==
    IF n < 10 THEN <<DecimalDigits[n + 1]>>
    ELSE NumberText(n \div 10) \o <<DecimalDigits[(n % 10) + 1]>>

IsNumberText(t) ==
    t # <<>> /\ \A i \in 1..Len(t) : \E v \in 0..9 : DecimalDigits[v + 1] = t[i]

\* a number as JSON.parse reads it
RECURSIVE NumberValue(_)
NumberValue(t) ==
    LET last == CHOOSE v \in 0..9 : DecimalDigits[v + 1] = t[Len(t)]
    IN  IF Len(t) = 1 THEN last ELSE 10 * NumberValue(SubSeq(t, 1, Len(t) - 1)) + last

\* Array.from of a Set of step numbers; the model's sets keep no insertion
\* order, the array lists them in ascending order
RECURSIVE ArrayFrom(_)
ArrayFrom(set) ==
    IF set = {} THEN <<>>
    ELSE LET least == CHOOSE n \in set : \A k \in set : n <= k
         IN  <<least>> \o ArrayFrom(set \ {least})

\* Object.entries: the keys of an object, one after the other
RECURSIVE KeysOf(_)
KeysOf(ids) ==
    IF ids = {} THEN <<>>
    ELSE LET id == CHOOSE x \in ids : TRUE IN <<id>> \o KeysOf(ids \ {id})

KeyText(key) == <<"\"">> \o key \o <<"\"">>

ArrayText(array) ==
    <<"[">> \o JoinWith([i \in 1..Len(array) |-> NumberText(array[i])], <<",">>) \o <<"]">>

StepsKey == <<"stepsCompleted">>

\* "pid":{"stepsCompleted":[1,2]}
EntryText(pid, array) ==
    KeyText(pid) \o <<":", "{">> \o KeyText(StepsKey) \o <<":">> \o ArrayText(array) \o <<"}">>

\* JSON.stringify(data) for data = { pid: { stepsCompleted: [...] } }
JsonStringify(data) ==
    LET keys == KeysOf(DOMAIN data)
    IN  <<"{">>
        \o JoinWith([i \in 1..Len(keys) |-> EntryText(keys[i], data[keys[i]])], <<",">>)
        \o <<"}">>

\* the text between [ and ] as an array of numbers; None when it is not one
ParseArray(t) ==
    IF t = <<>> THEN Some(<<>>)
    ELSE LET items == SplitOn(t, ",")
         IN  IF \A i \in 1..Len(items) : IsNumberText(items[i])
             THEN Some([i \in 1..Len(items) |-> NumberValue(items[i])])
             ELSE None

\* one entry "pid":{"stepsCompleted":[...]}; None when the text is not one
ParseEntry(t) ==
    LET opening == <<":", "{">> \o KeyText(StepsKey) \o <<":", "[">>
        closing == <<"]", "}">>
    IN  IF Len(t) < 2 \/ t[1] # "\"" \/ \A i \in 2..Len(t) : t[i] # "\"" THEN None
        ELSE LET q    == CHOOSE i \in 2..Len(t) :
                             t[i] = "\"" /\ \A j \in 2..(i - 1) : t[j] # "\""
                 rest == SubSeq(t, q + 1, Len(t))
             IN  IF Len(rest) < Len(opening) + Len(closing)
                    \/ SubSeq(rest, 1, Len(opening)) # opening
                    \/ SubSeq(rest, Len(rest) - 1, Len(rest)) # closing
                 THEN None
                 ELSE LET array == ParseArray(SubSeq(rest, Len(opening) + 1, Len(rest) - 2))
                      IN  IF array = None THEN None
                          ELSE Some([key |-> SubSeq(t, 2, q - 1), array |-> Get(array)])

\* the entries of an object, separated by commas
RECURSIVE ParseEntries(_)
ParseEntries(t) ==
    IF \A i \in 1..Len(t) : t[i] # "}" THEN None
    ELSE LET close == CHOOSE i \in 1..Len(t) : t[i] = "}" /\ \A j \in 1..(i - 1) : t[j] # "}"
             first == ParseEntry(SubSeq(t, 1, close))
             rest  == SubSeq(t, close + 1, Len(t))
         IN  IF first = None THEN None
             ELSE IF rest = <<>> THEN Some(<<Get(first)>>)
             ELSE IF Head(rest) # "," THEN None
             ELSE LET more == ParseEntries(Tail(rest))
                  IN  IF more = None THEN None ELSE Some(<<Get(first)>> \o Get(more))

\* JSON.parse(saved): the entries of the object, None when it throws
JsonParseObject(text) ==
    IF Len(text) < 2 \/ text[1] # "{" \/ text[Len(text)] # "}" THEN None
    ELSE IF Len(text) = 2 THEN Some(<<>>)
    ELSE ParseEntries(SubSeq(text, 2, Len(text) - 1))

\* localStorage.getItem answers null (None) when the key is missing
NoItem == None

\* loadProgressFromStorage into the empty state.progress: every array becomes
\* a Set again; a text that does not parse leaves the progress empty
loadProgressFromStorage(saved) ==
    IF saved = NoItem \/ Get(saved) = <<>> THEN NoProgress
    ELSE LET data == JsonParseObject(Get(saved))
         IN  IF data = None THEN NoProgress
             ELSE LET entries == Get(data)
                      keys    == {entries[i].key : i \in 1..Len(entries)}
                      last(k) == entries[CHOOSE i \in 1..Len(entries) :
                                            /\ entries[i].key = k
                                            /\ \A j \in (i + 1)..Len(entries) :
                                                  entries[j].key # k]
                  IN  [pid \in keys |->
                          {last(pid).array[i] : i \in 1..Len(last(pid).array)}]

\* a saveProgressToStorage that writes the entry of one project only
saveProgressToStorageOneProject(prog) ==
    LET ids == IF DOMAIN prog = {} THEN {} ELSE {CHOOSE id \in DOMAIN prog : TRUE}
    IN  Some(JsonStringify([pid \in ids |-> ArrayFrom(prog[pid])]))

saveProgressToStorage(prog) ==
    Some(JsonStringify([pid \in DOMAIN prog |-> ArrayFrom(prog[pid])]))

\* a test that takes only the empty text for blank
IsEmpty(code) == code = <<>>

\* `!code.trim()`
IsBlank(code) == Trim(code) = <<>>

NoRequest == <<>>

IdleClient ==
    /\ server = <<>> /\ keyboard = {} /\ projects = {} /\ currentLevel = 0 /\ currentProject = None
    /\ currentStep = 0 /\ accumulatedCode = <<>> /\ stepCompleted = FALSE
    /\ progress = NoProgress /\ codeInput = <<>> /\ nextVisible = FALSE
    /\ feedback = "hidden" /\ runsInFlight = {} /\ loadsInFlight = {}
    /\ listsInFlight = {} /\ lastMark = NoRequest
    /\ matched = {} /\ contrib = <<>> /\ hiddenNext = FALSE
    /\ sent = [runs |-> 0, loads |-> 0, lists |-> 0] /\ asked = None
    /\ storage = NoItem /\ dialog = None /\ latest = None
    /\ limits = [runs |-> 0, loads |-> 0, lists |-> 0]

\* the projects of the session and what localStorage holds for them at startup
ClientIds == {IdOf(1, 1, "hello"), IdOf(1, 1, "loops")}

StoredProgress ==
    {NoProgress}
    \cup {[id \in {IdOf(1, 1, "hello")} |-> done] : done \in {{2}, 1..StepCount}}

\* the sessions: a learner without progress with either keyboard, a learner
\* with stored progress
Sessions ==
    {[progress |-> NoProgress, keyboard |-> k] : k \in Keyboards}
    \cup {[progress |-> saved, keyboard |-> {<<" ">>, <<"a">>}] :
             saved \in StoredProgress \ {NoProgress}}

\* what localStorage holds when a session with that progress has been saved
StoredText(saved) == IF saved = NoProgress THEN NoItem ELSE saveProgressToStorage(saved)

\* DOMContentLoaded: loadProgressFromStorage, the welcome screen
StartClient ==
    /\ server = [id \in ClientIds |-> StepCount]
    /\ \E session \in Sessions :
          /\ storage = StoredText(session.progress)
          /\ keyboard = session.keyboard
    /\ progress = loadProgressFromStorage(storage)
    /\ dialog = None /\ latest = None
    /\ limits = [runs |-> MaxRuns, loads |-> MaxLoads, lists |-> MaxLists]
    /\ projects = {} /\ currentLevel = 0 /\ currentProject = None
    /\ currentStep = 0 /\ accumulatedCode = <<>> /\ stepCompleted = FALSE
    /\ codeInput = <<>> /\ nextVisible = FALSE
    /\ feedback = "hidden" /\ runsInFlight = {} /\ loadsInFlight = {}
    /\ listsInFlight = {} /\ lastMark = NoRequest
    /\ matched = {} /\ contrib = <<>> /\ hiddenNext = FALSE
    /\ sent = [runs |-> 0, loads |-> 0, lists |-> 0] /\ asked = None

ClientLevels == {LevelOf(id) : id \in DOMAIN server}

\* a session on a server with projects of two levels, no stored progress
SwitchIds == {IdOf(1, 1, "hello"), IdOf(2, 1, "loops")}

StartSwitch ==
    /\ server = [id \in SwitchIds |-> StepCount]
    /\ storage = NoItem
    /\ progress = loadProgressFromStorage(storage)
    /\ keyboard = {<<"a">>}
    /\ dialog = None /\ latest = None
    /\ limits = [runs |-> 1, loads |-> MaxLoads, lists |-> MaxSelects]
    /\ projects = {} /\ currentLevel = 0 /\ currentProject = None
    /\ currentStep = 0 /\ accumulatedCode = <<>> /\ stepCompleted = FALSE
    /\ codeInput = <<>> /\ nextVisible = FALSE
    /\ feedback = "hidden" /\ runsInFlight = {} /\ loadsInFlight = {}
    /\ listsInFlight = {} /\ lastMark = NoRequest
    /\ matched = {} /\ contrib = <<>> /\ hiddenNext = FALSE
    /\ sent = [runs |-> 0, loads |-> 0, lists |-> 0] /\ asked = None

\* a click on a level of the sidebar: selectLevel up to its await
SelectLevel ==
    /\ sent.lists < limits.lists
    /\ \E levelId \in ClientLevels :
          /\ currentLevel' = levelId
          /\ listsInFlight' = listsInFlight \cup {levelId}
    /\ sent' = [sent EXCEPT !.lists = @ + 1]
    /\ UNCHANGED <<server, keyboard, storage, dialog, latest, limits,
                   projects, currentProject, currentStep, accumulatedCode,
                   stepCompleted, progress, codeInput, nextVisible, feedback, runsInFlight,
                   loadsInFlight, lastMark, matched, contrib, hiddenNext, asked,
                   exceptClient>>

\* loadProjects after its await: the list, or [] when the request failed; the
\* entries of the list come without the steps
ProjectsResponse ==
    /\ \E levelId \in listsInFlight, ok \in BOOLEAN :
          /\ listsInFlight' = listsInFlight \ {levelId}
          /\ projects' = IF ok THEN ListOf(server, levelId, FALSE) ELSE {}
    /\ UNCHANGED <<server, keyboard, storage, dialog, latest, limits,
                   currentLevel, currentProject, currentStep, accumulatedCode,
                   stepCompleted, progress, codeInput, nextVisible, feedback, runsInFlight,
                   loadsInFlight, lastMark, matched, contrib, hiddenNext, sent,
                   asked, exceptClient>>

\* a click on a project of the list: loadProject up to its await
LoadProject ==
    /\ sent.loads < limits.loads
    /\ \E entry \in projects :
          /\ loadsInFlight' = loadsInFlight \cup {entry.id}
          /\ latest' = Some(entry.id)
    /\ sent' = [sent EXCEPT !.loads = @ + 1]
    /\ UNCHANGED <<server, keyboard, storage, dialog, limits,
                   projects, currentLevel, currentProject, currentStep,
                   accumulatedCode, stepCompleted, progress, codeInput, nextVisible, feedback,
                   runsInFlight, listsInFlight, lastMark, matched, contrib,
                   hiddenNext, asked, exceptClient>>

\* the steps that buildAccumulatedCode takes the solutions of
SolutionsTaken(proj, stepIndex, prog) ==
    [i \in 1..Len(CompletedBelow(proj, stepIndex, prog)) |->
        [project  |-> proj.id,
         step_num |-> CompletedBelow(proj, stepIndex, prog)[i].step_num,
         code     |-> CompletedBelow(proj, stepIndex, prog)[i].solution,
         kind     |-> "solution"]]

\* loadProject after its await; renderProject draws an empty editor
ProjectResponse ==
    /\ \E projectId \in loadsInFlight, ok \in BOOLEAN :
          /\ loadsInFlight' = loadsInFlight \ {projectId}
          /\ IF ok
             THEN LET proj == ProjectOf(projectId, server[projectId])
                      step == findFirstIncompleteStep(proj, progress)
                  IN  /\ currentProject' = Some(proj)
                      /\ currentStep' = step
                      /\ accumulatedCode' = buildAccumulatedCode(proj, step, progress)
                      /\ contrib' = SolutionsTaken(proj, step, progress)
                      /\ stepCompleted' = FALSE
                      /\ codeInput' = <<>>
                      /\ nextVisible' = FALSE
                      /\ feedback' = "hidden"
             ELSE UNCHANGED <<currentProject, currentStep, accumulatedCode, contrib,
                              stepCompleted, codeInput, nextVisible, feedback>>
    /\ UNCHANGED <<server, keyboard, storage, dialog, latest, limits,
                   projects, currentLevel, progress, runsInFlight, listsInFlight,
                   lastMark, matched, hiddenNext, sent, asked, exceptClient>>

\* the learner types in the editor
EditCode ==
    /\ currentProject # None
    /\ \E code \in keyboard \ {codeInput} : codeInput' = code
    /\ UNCHANGED <<server, keyboard, storage, dialog, latest, limits,
                   projects, currentLevel, currentProject, currentStep,
                   accumulatedCode, stepCompleted, progress, nextVisible, feedback,
                   runsInFlight, loadsInFlight, listsInFlight, lastMark, matched,
                   contrib, hiddenNext, sent, asked, exceptClient>>

CurrentStepOf(proj, stepIndex) == proj.steps[stepIndex + 1]

\* runCode up to its await: nothing is sent for blank code
RunCode ==
    /\ currentProject # None
    /\ IF IsBlank(codeInput)
       THEN /\ feedback' = "Write some code first!"
            /\ UNCHANGED <<runsInFlight, sent>>
       ELSE LET step == CurrentStepOf(Get(currentProject), currentStep)
                request == [project_id       |-> Get(currentProject).id,
                            step_num         |-> step.step_num,
                            code             |-> codeInput,
                            accumulated_code |-> accumulatedCode]
            IN  /\ sent.runs < limits.runs
                /\ runsInFlight' = runsInFlight \cup {request}
                /\ sent' = [sent EXCEPT !.runs = @ + 1]
                /\ UNCHANGED feedback
    /\ UNCHANGED <<server, keyboard, storage, dialog, latest, limits,
                   projects, currentLevel, currentProject, currentStep,
                   accumulatedCode, stepCompleted, progress, codeInput, nextVisible,
                   loadsInFlight, listsInFlight, lastMark, matched, contrib, hiddenNext,
                   asked, exceptClient>>

\* runCode after its await: step and code are the ones of the call, the
\* project id is read from the state again
RunResponse ==
    /\ \E request \in runsInFlight, result \in {"match", "mismatch", "rejected"} :
          /\ runsInFlight' = runsInFlight \ {request}
          /\ IF result = "match"
             THEN /\ stepCompleted' = TRUE
                  /\ progress' = markStepComplete(progress, Get(currentProject).id,
                                                  request.step_num)
                  /\ storage' = saveProgressToStorage(progress')
                  /\ lastMark' = Some([project_id |-> Get(currentProject).id,
                                       step_num   |-> request.step_num,
                                       code       |-> request.code])
                  /\ nextVisible' = TRUE
                  /\ feedback' = "match"
                  /\ matched' = matched \cup {[project  |-> request.project_id,
                                               step_num |-> request.step_num,
                                               code     |-> request.code]}
             ELSE /\ feedback' = IF result = "mismatch" THEN "mismatch" ELSE "hidden"
                  /\ UNCHANGED <<stepCompleted, progress, storage, lastMark, nextVisible,
                                 matched>>
    /\ UNCHANGED <<server, keyboard, dialog, latest, limits,
                   projects, currentLevel, currentProject, currentStep,
                   accumulatedCode, codeInput, loadsInFlight, listsInFlight, contrib, hiddenNext, sent, asked, exceptClient>>

\* nextStep; renderProject draws an empty editor
NextStep ==
    /\ currentProject # None
    /\ IF currentStep >= Len(Get(currentProject).steps) - 1
       THEN UNCHANGED <<currentStep, accumulatedCode, contrib, stepCompleted, codeInput,
                        nextVisible, feedback, hiddenNext>>
       ELSE /\ accumulatedCode' = AppendCode(accumulatedCode, codeInput)
            /\ contrib' = Append(contrib,
                  [project  |-> Get(currentProject).id,
                   step_num |-> CurrentStepOf(Get(currentProject), currentStep).step_num,
                   code     |-> codeInput,
                   kind     |-> "entered"])
            /\ currentStep' = currentStep + 1
            /\ stepCompleted' = FALSE
            /\ codeInput' = <<>>
            /\ nextVisible' = FALSE
            /\ feedback' = "hidden"
            /\ hiddenNext' = (hiddenNext \/ ~nextVisible)
    /\ UNCHANGED <<server, keyboard, storage, dialog, latest, limits,
                   projects, currentLevel, currentProject, progress, runsInFlight,
                   loadsInFlight, listsInFlight, lastMark, matched, sent, asked,
                   exceptClient>>

\* resetStep
ResetStep ==
    /\ currentProject # None
    /\ codeInput' = <<>>
    /\ feedback' = "hidden"
    /\ nextVisible' = FALSE
    /\ stepCompleted' = FALSE
    /\ UNCHANGED <<server, keyboard, storage, dialog, latest, limits,
                   projects, currentLevel, currentProject, currentStep,
                   accumulatedCode, progress, runsInFlight, loadsInFlight, listsInFlight,
                   lastMark, matched, contrib, hiddenNext, sent, asked,
                   exceptClient>>

\* ---- app.js: progress and localStorage

\* the arrays a session may have left in localStorage: step numbers in the
\* order in which they were completed
StoredArrays ==
    {array \in SeqsUpTo(1..StepCount, 2) :
        \A i, j \in 1..Len(array) : array[i] = array[j] => i = j}

\* what localStorage holds at startup: nothing, text that is not JSON, or the
\* text an earlier session has written
StoredTexts ==
    {NoItem, Some(<<"garbage">>)}
    \cup {Some(JsonStringify(data)) :
             data \in UNION {[ids -> StoredArrays] : ids \in SUBSET ClientIds}}

\* DOMContentLoaded: loadProgressFromStorage into the empty state
StartStorage ==
    /\ server = [id \in ClientIds |-> StepCount]
    /\ storage \in StoredTexts
    /\ progress = loadProgressFromStorage(storage)
    /\ keyboard = {<<"a">>}
    /\ limits = [runs |-> MaxMarks, loads |-> 0, lists |-> 0]
    /\ projects = {} /\ currentLevel = 0 /\ currentProject = None
    /\ currentStep = 0 /\ accumulatedCode = <<>> /\ stepCompleted = FALSE
    /\ codeInput = <<>> /\ nextVisible = FALSE
    /\ feedback = "hidden" /\ runsInFlight = {} /\ loadsInFlight = {}
    /\ listsInFlight = {} /\ lastMark = NoRequest
    /\ matched = {} /\ contrib = <<>> /\ hiddenNext = FALSE
    /\ sent = [runs |-> 0, loads |-> 0, lists |-> 0] /\ asked = None
    /\ dialog = None /\ latest = None

\* a call of markStepComplete(projectId, stepNum, code): the Set, the save, the
\* post to the backend
MarkStepComplete ==
    /\ sent.runs < limits.runs
    /\ \E projectId \in DOMAIN server, stepNum \in 1..StepCount, code \in keyboard :
          /\ progress' = markStepComplete(progress, projectId, stepNum)
          /\ storage' = saveProgressToStorage(progress')
          /\ lastMark' = Some([project_id |-> projectId, step_num |-> stepNum,
                               code |-> code])
    /\ sent' = [sent EXCEPT !.runs = @ + 1]
    /\ UNCHANGED <<server, keyboard, dialog, latest, limits, projects, currentLevel,
                   currentProject, currentStep, accumulatedCode, stepCompleted, codeInput,
                   nextVisible, feedback, runsInFlight, loadsInFlight, listsInFlight,
                   matched, contrib, hiddenNext, asked, exceptClient>>

\* the page is loaded again: a new state object, then loadProgressFromStorage
Reload ==
    /\ progress' = loadProgressFromStorage(storage)
    /\ lastMark' = NoRequest
    /\ UNCHANGED <<server, keyboard, storage, dialog, latest, limits, projects,
                   currentLevel, currentProject, currentStep, accumulatedCode,
                   stepCompleted, codeInput, nextVisible, feedback, runsInFlight,
                   loadsInFlight, listsInFlight, matched, contrib, hiddenNext, sent,
                   asked, exceptClient>>

\* ---- app.js: a learner who comes back to the page

\* the projects of the session: one of tier 1 and one of tier 2 of level 1
SessionIds == {IdOf(1, 1, "hello"), IdOf(1, 2, "scores")}

\* what localStorage holds at the first visit: nothing, or the first two steps
\* of hello
SessionTexts ==
    {NoItem, saveProgressToStorage([id \in {IdOf(1, 1, "hello")} |-> {1, 2}])}

\* DOMContentLoaded of the first visit
StartSession ==
    /\ server = [id \in SessionIds |-> StepCount]
    /\ storage \in SessionTexts
    /\ progress = loadProgressFromStorage(storage)
    /\ keyboard = {<<"a">>}
    /\ dialog = None /\ latest = None
    /\ limits = [runs |-> MaxRuns, loads |-> MaxLoads, lists |-> MaxSelects]
    /\ projects = {} /\ currentLevel = 0 /\ currentProject = None
    /\ currentStep = 0 /\ accumulatedCode = <<>> /\ stepCompleted = FALSE
    /\ codeInput = <<>> /\ nextVisible = FALSE
    /\ feedback = "hidden" /\ runsInFlight = {} /\ loadsInFlight = {}
    /\ listsInFlight = {} /\ lastMark = NoRequest
    /\ matched = {} /\ contrib = <<>> /\ hiddenNext = FALSE
    /\ sent = [runs |-> 0, loads |-> 0, lists |-> 0] /\ asked = None

\* the page is opened again: the state object of line 2 anew, no answer of the
\* old page is awaited any more, then loadProgressFromStorage
Restart ==
    /\ progress' = loadProgressFromStorage(storage)
    /\ projects' = {} /\ currentLevel' = 0 /\ currentProject' = None
    /\ currentStep' = 0 /\ accumulatedCode' = <<>> /\ stepCompleted' = FALSE
    /\ codeInput' = <<>> /\ nextVisible' = FALSE
    /\ feedback' = "hidden" /\ runsInFlight' = {} /\ loadsInFlight' = {}
    /\ listsInFlight' = {} /\ lastMark' = NoRequest
    /\ matched' = {} /\ contrib' = <<>> /\ hiddenNext' = FALSE
    /\ latest' = None
    /\ UNCHANGED <<server, keyboard, storage, dialog, limits, sent, asked, exceptClient>>

\* ---- app.js: the generate dialog and doGenerate

\* the text of an error message, as the words that matter: what the backend
\* says of code that does not compile holds the words 'invalid code'
MessageText(message) ==
    CASE message = "m2"     -> <<"Claude returned ", "invalid code", ": SyntaxError">>
      [] message = "detail" -> <<"Invalid code", " in step 2">>
      [] OTHER              -> <<message>>

\* msg.includes(word)
Includes(text, word) == \E i \in 1..Len(text) : text[i] = word

AskingMessage == <<"Asking Claude to create a project... this may take a moment.">>

RetryMessage == <<"Generated code had syntax errors. Click Generate to try again.">>

\* showGenerateDialog: the dialog with its button and its hidden status line;
\* phase is where doGenerate stands
NewDialog ==
    [open |-> TRUE, status |-> <<>>, color |-> "dim", button |-> "Generate",
     loading |-> FALSE, phase |-> "idle", tier |-> 1, project |-> NoProject]

\* project.id of a generated project
GeneratedId(levelId, tier, projectValue) == IdOf(levelId, tier, projectValue)

\* a catch branch that leaves the button in the loading state
ShowFailureStillLoading(d, message) ==
    LET msg         == MessageText(message)
        isCodeError == Includes(msg, "invalid code")
    IN  [d EXCEPT !.color   = "error",
                  !.status  = IF isCodeError THEN RetryMessage ELSE <<"Failed: ">> \o msg,
                  !.button  = IF isCodeError THEN "Retry" ELSE "Generate",
                  !.phase   = "idle"]

\* the catch branch of doGenerate: e.response is undefined, msg is e.message
ShowFailure(d, message) ==
    LET msg         == MessageText(message)
        isCodeError == Includes(msg, "invalid code")
    IN  [d EXCEPT !.color   = "error",
                  !.status  = IF isCodeError THEN RetryMessage ELSE <<"Failed: ">> \o msg,
                  !.loading = FALSE,
                  !.button  = IF isCodeError THEN "Retry" ELSE "Generate",
                  !.phase   = "idle"]

\* a page with level 1 selected, its list shown and the generate dialog open
StartGenerate ==
    /\ server = [id \in ClientIds |-> StepCount]
    /\ storage = NoItem /\ progress = NoProgress
    /\ keyboard = {}
    /\ limits = [runs |-> 0, loads |-> 0, lists |-> 0]
    /\ currentLevel = 1 /\ projects = ListOf(server, currentLevel, FALSE)
    /\ currentProject = None
    /\ currentStep = 0 /\ accumulatedCode = <<>> /\ stepCompleted = FALSE
    /\ codeInput = <<>> /\ nextVisible = FALSE
    /\ feedback = "hidden" /\ runsInFlight = {} /\ loadsInFlight = {}
    /\ listsInFlight = {} /\ lastMark = NoRequest
    /\ matched = {} /\ contrib = <<>> /\ hiddenNext = FALSE
    /\ sent = [runs |-> 0, loads |-> 0, lists |-> 0] /\ asked = None
    /\ dialog = Some(NewDialog) /\ latest = None

\* a click on Generate (or Retry): doGenerate up to await api.generateProject,
\* which is called without onStatus
DoGenerate ==
    /\ dialog # None /\ Get(dialog).open /\ ~Get(dialog).loading
    /\ Get(dialog).phase = "idle"
    /\ \E tier \in {1, 2, 3} :
          dialog' = Some([Get(dialog) EXCEPT !.loading = TRUE,
                                             !.button  = "Generating...",
                                             !.status  = AskingMessage,
                                             !.tier    = tier,
                                             !.phase   = "generating"])
    /\ stream' \in Streams
    /\ onStatus' = FALSE
    /\ readPos' = 0 /\ buffer' = <<>> /\ projectData' = NoProject
    /\ outcome' = None /\ statusCalls' = <<>> /\ processed' = <<>>
    /\ pc' = "fetch"
    /\ UNCHANGED <<server, keyboard, storage, latest, limits, projects, currentLevel,
                   currentProject, currentStep, accumulatedCode, stepCompleted, progress,
                   codeInput, nextVisible, feedback, runsInFlight, loadsInFlight,
                   listsInFlight, lastMark, matched, contrib, hiddenNext, sent, asked,
                   validateVars, shimVars, executeVars, autoFixVars, pipelineVars>>

\* the call of api.generateProject is over: its reader, buffer and projectData
\* are gone
CallOver ==
    /\ stream' = <<>> /\ readPos' = 0 /\ buffer' = <<>> /\ projectData' = NoProject
    /\ outcome' = None /\ statusCalls' = <<>> /\ processed' = <<>> /\ onStatus' = FALSE
    /\ pc' = "idle"

\* api.generateProject has resolved and its call is over: the status line,
\* then loadProjects of the current level is awaited
GenerateResolved ==
    /\ dialog # None /\ Get(dialog).phase = "generating"
    /\ outcome # None /\ Get(outcome).kind = "resolved"
    /\ LET id == GeneratedId(currentLevel, Get(dialog).tier, Get(outcome).value)
       IN  server' = [pid \in DOMAIN server \cup {id} |->
                         IF pid \in DOMAIN server THEN server[pid] ELSE StepCount]
    /\ dialog' = Some([Get(dialog) EXCEPT !.color   = "success",
                                          !.status  = <<"Created: ", Get(outcome).value>>,
                                          !.project = Get(outcome).value,
                                          !.phase   = "reloading"])
    /\ listsInFlight' = listsInFlight \cup {currentLevel}
    /\ CallOver
    /\ UNCHANGED <<keyboard, storage, latest, limits, projects, currentLevel,
                   currentProject, currentStep, accumulatedCode, stepCompleted, progress,
                   codeInput, nextVisible, feedback, runsInFlight, loadsInFlight,
                   lastMark, matched, contrib, hiddenNext, sent, asked,
                   validateVars, shimVars, executeVars, autoFixVars, pipelineVars>>

\* api.generateProject has rejected and its call is over: the catch branch
GenerateRejected ==
    /\ dialog # None /\ Get(dialog).phase = "generating"
    /\ outcome # None /\ Get(outcome).kind = "rejected"
    /\ dialog' = Some(ShowFailure(Get(dialog), Get(outcome).value))
    /\ CallOver
    /\ UNCHANGED <<server, keyboard, storage, latest, limits, projects, currentLevel,
                   currentProject, currentStep, accumulatedCode, stepCompleted, progress,
                   codeInput, nextVisible, feedback, runsInFlight, loadsInFlight,
                   listsInFlight, lastMark, matched, contrib, hiddenNext, sent, asked,
                   validateVars, shimVars, executeVars, autoFixVars, pipelineVars>>

\* the list awaited by doGenerate has arrived (or failed): renderProjectList,
\* then the timer of 800 ms is set
GenerateReloaded ==
    /\ dialog # None /\ Get(dialog).phase = "reloading"
    /\ currentLevel \in listsInFlight
    /\ \E ok \in BOOLEAN :
          projects' = IF ok THEN ListOf(server, currentLevel, FALSE) ELSE {}
    /\ listsInFlight' = listsInFlight \ {currentLevel}
    /\ dialog' = Some([Get(dialog) EXCEPT !.phase = "timer"])
    /\ UNCHANGED <<server, keyboard, storage, latest, limits, currentLevel,
                   currentProject, currentStep, accumulatedCode, stepCompleted, progress,
                   codeInput, nextVisible, feedback, runsInFlight, loadsInFlight,
                   lastMark, matched, contrib, hiddenNext, sent, asked, exceptClient>>

\* the timer fires: the dialog is removed, loadProject(project.id) is called
GenerateTimer ==
    /\ dialog # None /\ Get(dialog).phase = "timer"
    /\ LET id == GeneratedId(currentLevel, Get(dialog).tier, Get(dialog).project)
       IN  /\ loadsInFlight' = loadsInFlight \cup {id}
           /\ latest' = Some(id)
    /\ dialog' = Some([Get(dialog) EXCEPT !.open = FALSE, !.phase = "loading"])
    /\ UNCHANGED <<server, keyboard, storage, limits, projects, currentLevel,
                   currentProject, currentStep, accumulatedCode, stepCompleted, progress,
                   codeInput, nextVisible, feedback, runsInFlight, listsInFlight,
                   lastMark, matched, contrib, hiddenNext, sent, asked, exceptClient>>

\* a click on Cancel: the dialog is removed from the page; a doGenerate that
\* is under way keeps the button and the status line it has looked up
CancelDialog ==
    /\ dialog # None /\ Get(dialog).open
    /\ dialog' = Some([Get(dialog) EXCEPT !.open = FALSE])
    /\ UNCHANGED <<server, keyboard, storage, latest, limits, projects, currentLevel,
                   currentProject, currentStep, accumulatedCode, stepCompleted, progress,
                   codeInput, nextVisible, feedback, runsInFlight, loadsInFlight,
                   listsInFlight, lastMark, matched, contrib, hiddenNext, sent, asked,
                   exceptClient>>

\* ---- app.js: completion and unlocking

\* fewest steps of a project (tier 1: 4-6 steps)
MinProjectSteps == 4

\* proj.steps?.length || 5
FallbackStepCount == 5

\* info.stepsCompleted.size >= 3
UnlockThreshold == 3

FindProject(list, projectId) == {entry \in list : entry.id = projectId}

isProjectComplete(list, prog, projectId) ==
    IF FindProject(list, projectId) = {} \/ ~HasProgress(prog, projectId) THEN FALSE
    ELSE LET proj == CHOOSE entry \in FindProject(list, projectId) : TRUE
             needed == IF proj.steps # None /\ Get(proj.steps) # 0
                       THEN Get(proj.steps) ELSE FallbackStepCount
         IN  Cardinality(prog[projectId]) >= needed

isAnyProjectComplete(prog, levelId) ==
    \E pid \in DOMAIN prog :
        /\ StartsWith(pid, <<"level", LevelText(levelId), "_">>)
        /\ Cardinality(prog[pid]) >= UnlockThreshold

isAnyTierComplete(prog, levelId, tier) ==
    \E pid \in DOMAIN prog :
        /\ StartsWith(pid, <<"level", LevelText(levelId), "_", tierNames[tier]>>)
        /\ Cardinality(prog[pid]) >= UnlockThreshold

isTierUnlocked(prog, levelId, tier) ==
    IF levelId = 1 /\ tier = 1 THEN TRUE
    ELSE IF tier = 1 THEN isAnyProjectComplete(prog, levelId - 1)
    ELSE isAnyTierComplete(prog, levelId, tier - 1)

\* the projects whose progress is looked at, and the progress localStorage may
\* hold for them: per project nothing, or the first k steps
UnlockIds == {IdOf(1, 1, "hello"), IdOf(1, 2, "scores"), IdOf(2, 1, "loops")}

ProgressStates(stepCount) ==
    UNION {[ids -> {1..k : k \in 0..stepCount}] : ids \in SUBSET UnlockIds}

\* a page on which a level has been selected and its project list has arrived
StartUnlock ==
    /\ \E stepCount \in MinProjectSteps..MaxProjectSteps :
          /\ server = [id \in UnlockIds |-> stepCount]
          /\ progress \in ProgressStates(stepCount)
    /\ storage = StoredText(progress) /\ dialog = None /\ latest = None
    /\ limits = [runs |-> 0, loads |-> 0, lists |-> 0]
    /\ currentLevel \in {LevelOf(id) : id \in UnlockIds}
    /\ \E withSteps \in BOOLEAN : projects = ListOf(server, currentLevel, withSteps)
    /\ keyboard = {} /\ currentProject = None
    /\ currentStep = 0 /\ accumulatedCode = <<>> /\ stepCompleted = FALSE
    /\ codeInput = <<>> /\ nextVisible = FALSE
    /\ feedback = "hidden" /\ runsInFlight = {} /\ loadsInFlight = {}
    /\ listsInFlight = {} /\ lastMark = NoRequest
    /\ matched = {} /\ contrib = <<>> /\ hiddenNext = FALSE
    /\ sent = [runs |-> 0, loads |-> 0, lists |-> 0] /\ asked = None

\* renderProjectList: isProjectComplete(p.id) for a project of the list
ProjectCompleteAsked ==
    /\ \E entry \in projects :
          asked' = Some([fn     |-> "isProjectComplete",
                         id     |-> entry.id,
                         level  |-> 0,
                         tier   |-> 0,
                         result |-> isProjectComplete(projects, progress, entry.id)])
    /\ UNCHANGED <<server, keyboard, storage, dialog, latest, limits,
                   projects, currentLevel, currentProject, currentStep,
                   accumulatedCode, stepCompleted, progress, codeInput, nextVisible, feedback,
                   runsInFlight, loadsInFlight, listsInFlight, lastMark, matched, contrib,
                   hiddenNext, sent, exceptClient>>

AskedLevels == 1..3

\* renderTiers: isTierUnlocked(level, tier)
TierUnlockedAsked ==
    /\ \E levelId \in AskedLevels, tier \in {1, 2, 3} :
          asked' = Some([fn     |-> "isTierUnlocked",
                         id     |-> <<>>,
                         level  |-> levelId,
                         tier   |-> tier,
                         result |-> isTierUnlocked(progress, levelId, tier)])
    /\ UNCHANGED <<server, keyboard, storage, dialog, latest, limits,
                   projects, currentLevel, currentProject, currentStep,
                   accumulatedCode, stepCompleted, progress, codeInput, nextVisible, feedback,
                   runsInFlight, loadsInFlight, listsInFlight, lastMark, matched, contrib,
                   hiddenNext, sent, exceptClient>>

\* ------------------------------------------------------------ specifications

InitValidate ==
    StartValidate /\ IdleShim /\ IdleExecute /\ IdleAutoFix /\ IdlePipeline /\ IdleStream
    /\ IdleClient

NextValidate == Validate

SpecValidate == InitValidate /\ [][NextValidate]_vars

InitShim ==
    IdleValidate /\ StartShim /\ IdleExecute /\ IdleAutoFix /\ IdlePipeline /\ IdleStream
    /\ IdleClient

NextShim == InputCall \/ ProgramExit

SpecShim == InitShim /\ [][NextShim]_vars

InitExecute ==
    IdleValidate /\ IdleShim /\ StartExecute /\ IdleAutoFix /\ IdlePipeline /\ IdleStream
    /\ IdleClient

NextExecute == Execute

SpecExecute == InitExecute /\ [][NextExecute]_vars

InitAutoFix ==
    IdleValidate /\ IdleShim /\ IdleExecute /\ StartAutoFix /\ IdlePipeline /\ IdleStream
    /\ IdleClient

NextAutoFix == AutoFixOnce \/ AutoFixAgain

SpecAutoFix == InitAutoFix /\ [][NextAutoFix]_vars

InitPipeline ==
    IdleValidate /\ IdleShim /\ IdleExecute /\ IdleAutoFix /\ StartPipeline /\ IdleStream
    /\ IdleClient

NextPipeline == Generate \/ QualityCheck \/ AutoFix \/ AiRepair \/ Accept \/ Reject

SpecPipeline == InitPipeline /\ [][NextPipeline]_vars

InitStream ==
    IdleValidate /\ IdleShim /\ IdleExecute /\ IdleAutoFix /\ IdlePipeline /\ StartStream
    /\ IdleClient

NextStream == FetchResponse \/ ReadChunk \/ StreamClosed

SpecStream == InitStream /\ [][NextStream]_vars

InitClient ==
    IdleValidate /\ IdleShim /\ IdleExecute /\ IdleAutoFix /\ IdlePipeline /\ IdleStream
    /\ StartClient

NextClient ==
    \/ SelectLevel \/ ProjectsResponse \/ LoadProject \/ ProjectResponse
    \/ EditCode \/ RunCode \/ RunResponse \/ NextStep \/ ResetStep

SpecClient == InitClient /\ [][NextClient]_vars

InitSwitch ==
    IdleValidate /\ IdleShim /\ IdleExecute /\ IdleAutoFix /\ IdlePipeline /\ IdleStream
    /\ StartSwitch

SpecSwitch == InitSwitch /\ [][NextClient]_vars

InitStorage ==
    IdleValidate /\ IdleShim /\ IdleExecute /\ IdleAutoFix /\ IdlePipeline /\ IdleStream
    /\ StartStorage

NextStorage == MarkStepComplete \/ Reload

SpecStorage == InitStorage /\ [][NextStorage]_vars

InitSession ==
    IdleValidate /\ IdleShim /\ IdleExecute /\ IdleAutoFix /\ IdlePipeline /\ IdleStream
    /\ StartSession

NextSession ==
    \/ SelectLevel \/ ProjectsResponse \/ LoadProject \/ ProjectResponse
    \/ EditCode \/ RunCode \/ RunResponse \/ NextStep \/ ResetStep \/ Restart

SpecSession == InitSession /\ [][NextSession]_vars

InitGenerate ==
    IdleValidate /\ IdleShim /\ IdleExecute /\ IdleAutoFix /\ IdlePipeline /\ IdleStream
    /\ StartGenerate

NextGenerate ==
    \/ DoGenerate \/ FetchResponse \/ ReadChunk \/ StreamClosed
    \/ GenerateResolved \/ GenerateRejected \/ GenerateReloaded \/ GenerateTimer
    \/ ProjectResponse \/ CancelDialog

SpecGenerate == InitGenerate /\ [][NextGenerate]_vars

InitUnlock ==
    IdleValidate /\ IdleShim /\ IdleExecute /\ IdleAutoFix /\ IdlePipeline /\ IdleStream
    /\ StartUnlock

NextUnlock == ProjectCompleteAsked \/ TierUnlockedAsked

SpecUnlock == InitUnlock /\ [][NextUnlock]_vars

\* ------------------------------------------------------------------- claims

Last(seq) == seq[Len(seq)]

Count(seq, S) == Cardinality({i \in 1..Len(seq) : seq[i] \in S})

\* an upper bound on the steps a run still takes: two per attempt left, plus
\* what lies before the first attempt
StepsLeft ==
    LET budget == 2 * (MaxRepairAttempts - attempts)
    IN  CASE pstate \in Terminal         -> 0
          [] pstate = "quality_checked"  -> budget + (IF AutoFixed THEN 1 ELSE 3)
          [] pstate = "ai_repaired"      -> budget + 2
          [] pstate = "auto_fixed"       -> budget + 2
          [] pstate = "generated"        -> budget + 4
          [] pstate = "start"            -> budget + 5

\* some step of the pipeline can be taken
CanStep == pstate = "start" \/ CanCheck \/ CanAutoFix \/ CanAiRepair \/ CanAccept \/ CanReject

\* C1: the repair pipeline terminates.  No run makes more than
\* MaxRepairAttempts AI-repair attempts; every step brings the run closer to a
\* terminal state and a run that has not reached one can always step, so a run
\* with a generated project ends in accepted or rejected; when a quality check
\* still finds issues after the last allowed attempt the only step left is the
\* one to rejected; a terminal state is never left.
RepairTerminates ==
    /\ [](attempts <= MaxRepairAttempts /\ Count(events, {"claude_repair"}) = attempts)
    /\ [](StepsLeft >= 0)
    /\ [][StepsLeft' < StepsLeft]_vars
    /\ [](pstate \notin Terminal <=> CanStep)
    /\ []((pstate = "quality_checked" /\ issues # {} /\ attempts = MaxRepairAttempts)
             => (CanReject /\ ~CanAiRepair /\ ~CanAccept /\ ~CanAutoFix /\ ~CanCheck))
    /\ [][(pstate = "generated") => (pstate' \notin {"aborted"})]_vars
    /\ []((pstate \in Terminal /\ project # None) => pstate \in {"accepted", "rejected"})

\* a run that used both attempts and was rejected with issues left
RepairExhausted ==
    /\ pstate = "rejected"
    /\ attempts = MaxRepairAttempts
    /\ issues # {}
    /\ Count(events, {"claude_repair"}) = MaxRepairAttempts

\* C2: accepted is entered only directly after a quality check that found no
\* issue in exactly the revision accepted; every revision that auto-fix or AI
\* repair produced is quality-checked next.
AcceptedOnlyAfterCheck ==
    /\ pstate = "accepted" =>
          /\ checked = project
          /\ issues = {}
          /\ check(Get(project)) = {}
          /\ Len(trail) >= 2
          /\ trail[Len(trail) - 1] = "quality_checked"
    /\ \A i \in 1..Len(trail) :
          trail[i] \in {"auto_fixed", "ai_repaired"} =>
              /\ i < Len(trail) => trail[i + 1] = "quality_checked"
              /\ i = Len(trail) => pstate = trail[i]

\* a project that came back from AI repair and was accepted after its re-check
AcceptedAfterAiRepair ==
    /\ pstate = "accepted"
    /\ Len(trail) >= 3
    /\ trail[Len(trail) - 2] = "ai_repaired"

StageRank(status) ==
    CASE status = "generating"    -> 1
      [] status = "validating"    -> 2
      [] status = "quality_check" -> 3
      [] status = "repairing"     -> 4
      [] status = "claude_repair" -> 5
      [] status = "saving"        -> 6
      [] status = "done"          -> 7
      [] status = "error"         -> 7

\* C3: the event statuses are emitted in stage order; only repairing and
\* claude_repair occur more than once; a finished run ends with exactly one
\* terminal event (done or error) and nothing follows a terminal event.
EventsInStageOrder ==
    /\ \A i, j \in 1..Len(events) : i < j => StageRank(events[i]) <= StageRank(events[j])
    /\ \A i, j \in 1..Len(events) :
          i # j /\ events[i] = events[j] => events[i] \in {"repairing", "claude_repair"}
    /\ \A i \in 1..Len(events) : events[i] \in {"done", "error"} => i = Len(events)
    /\ pstate \in Terminal <=> (events # <<>> /\ Last(events) \in {"done", "error"})
    /\ events # <<>> => events[1] = "generating"

\* a run that went through every stage, with both AI-repair attempts
EventsOfFullRun ==
    /\ pstate = "accepted"
    /\ events = <<"generating", "validating", "quality_check", "repairing",
                  "claude_repair", "claude_repair", "saving", "done">>

\* C4: saving, the write to storage and done happen only in an accepted run,
\* and what is stored is the accepted project; a rejected run ends with error
\* and has neither emitted saving or done nor written anything.
OnlyAcceptedIsPersisted ==
    /\ (stored # None \/ Count(events, {"saving", "done"}) > 0) =>
          /\ pstate = "accepted"
          /\ stored = project
          /\ check(Get(stored)) = {}
    /\ pstate \in {"rejected", "aborted"} =>
          /\ Last(events) = "error"
          /\ Count(events, {"saving", "done"}) = 0
          /\ stored = None

\* a candidate that was repaired and still rejected: nothing was stored
RejectedNotPersisted ==
    /\ pstate = "rejected"
    /\ project # None
    /\ Count(trail, {"ai_repaired"}) > 0
    /\ stored = None

SandboxRunOf(req) == run(req.accumulated_code \o req.code, req.step.mock_inputs)

\* C5: an execute call whose sandbox run crashed or timed out answers
\* success = false and match = false, did not invoke the validation engine, and
\* ran the sandbox exactly once.
FailedRunNeverValidated ==
    xResult # None =>
        LET r == SandboxRunOf(xRequest)
        IN  (~r.exited_cleanly \/ r.timed_out) =>
               /\ ~Get(xResult).success
               /\ ~Get(xResult).match
               /\ xValidations = 0
               /\ xSandboxRuns = 1

\* a run that timed out after printing exactly the expected output
TimedOutWithExpectedOutput ==
    /\ xResult # None
    /\ SandboxRunOf(xRequest).timed_out
    /\ SandboxRunOf(xRequest).stdout = xRequest.step.expected_output
    /\ xRequest.step.expected_output # <<>>

\* the two texts differ only in redundant whitespace: whitespace around the
\* whole text, or spaces at the end of a line
RedundantWhitespaceOnly(a, e) ==
    LET la == SplitOn(Trim(a), "\n")
        le == SplitOn(Trim(e), "\n")
    IN  /\ Len(la) = Len(le)
        /\ \A i \in 1..Len(la) : RStripSet(la[i], {" "}) = RStripSet(le[i], {" "})

InputsInCallOrder ==
    /\ Len(returned) <= Len(mock_inputs)
    /\ \A k \in 1..Len(returned) : returned[k] = mock_inputs[k]
    /\ \A i, j \in 1..Len(consumed) : i # j => consumed[i] # consumed[j]
    /\ inputCalls <= Len(mock_inputs) => Len(returned) = inputCalls /\ runStatus # "failed"
    /\ inputCalls > Len(mock_inputs) =>
          /\ runStatus = "failed"
          /\ inputCalls = Len(mock_inputs) + 1
          /\ returned = mock_inputs

\* mock_inputs ["Alice", "25"]: two calls answered in order, the third failed
ThirdInputFails ==
    /\ mock_inputs = <<"Alice", "25">>
    /\ returned = <<"Alice", "25">>
    /\ inputCalls = 3
    /\ runStatus = "failed"

\* C8: a fault of the generation service during AI repair does not end the
\* run: it costs one attempt (as a successful call does), leaves the pipeline
\* at the quality-checked project, the next attempt follows while attempts
\* remain, and rejected is reached only with the budget used up.
ServiceFaultCostsOneAttempt ==
    /\ attempts = Count(trail, {"ai_fault", "ai_repaired"})
    /\ (trail # <<>> /\ Last(trail) = "ai_fault") =>
          /\ pstate = "quality_checked"
          /\ checked = project
          /\ attempts < MaxRepairAttempts => CanAiRepair /\ ~CanReject
          /\ attempts = MaxRepairAttempts => CanReject
    /\ pstate = "rejected" => attempts = MaxRepairAttempts

\* the first attempt hit a fault, the second repaired the project
AcceptedAfterServiceFault ==
    /\ pstate = "accepted"
    /\ Count(trail, {"ai_fault"}) = 1
    /\ attempts = MaxRepairAttempts

RECURSIVE PayloadsOf(_)
PayloadsOf(parts) ==
    IF parts = <<>> THEN <<>>
    ELSE LET part == Head(parts)
             here == IF HasDataPrefix(part) /\ JsonParse(JsonStr(part)) # None
                     THEN <<Get(JsonParse(JsonStr(part)))>> ELSE <<>>
         IN  here \o PayloadsOf(Tail(parts))

Frames == PayloadsOf(SplitFrames(stream))

IsErrorFrame(token) == token \in ObjectTokens /\ EventOf(token).status = "error"

IsDoneFrame(token) == token \in ObjectTokens /\ EventOf(token).status = "done"

IsStatusFrame(token) == token \in ObjectTokens /\ ~IsErrorFrame(token) /\ ~IsDoneFrame(token)

HasErrorFrame == \E i \in 1..Len(Frames) : IsErrorFrame(Frames[i])

FirstErrorFrame == CHOOSE i \in 1..Len(Frames) :
    IsErrorFrame(Frames[i]) /\ \A j \in 1..(i - 1) : ~IsErrorFrame(Frames[j])

\* every payload of the stream that parses is an event object
OnlyEventObjects == \A i \in 1..Len(Frames) : Frames[i] \in ObjectTokens

\* the last frame of the stream has no blank line after it
LastFrameUnterminated ==
    LET parts == SplitFrames(stream)
    IN  PayloadsOf(<<parts[Len(parts)]>>) # <<>>

\* C10: whenever a stream of event objects that holds an error frame has been
\* read to its end, generateProject has rejected with the message of the first
\* error frame and has processed the frames up to that one and none after it,
\* wherever the error frame is, the unterminated last frame included.
ErrorFrameAlwaysRejects ==
    (pc = "settled" /\ OnlyEventObjects /\ HasErrorFrame) =>
        /\ outcome = Some(Rejected(EventOf(Frames[FirstErrorFrame]).message))
        /\ processed = SubSeq(Frames, 1, FirstErrorFrame)

HasDoneFrame == \E i \in 1..Len(Frames) : IsDoneFrame(Frames[i])

\* C11: a settled generateProject has resolved only with the project of a done
\* frame of the stream; a stream that closed with neither a done frame nor an
\* error frame has made it reject, with "No project data received from stream"
\* when every payload of the stream is an event object.
ResolvesOnlyWithDoneProject ==
    pc = "settled" =>
        /\ Get(outcome).kind = "resolved" =>
              \E i \in 1..Len(Frames) :
                  /\ IsDoneFrame(Frames[i])
                  /\ EventOf(Frames[i]).project = Get(outcome).value
                  /\ Get(outcome).value # NoProject
        /\ (~HasDoneFrame /\ ~HasErrorFrame) =>
              /\ Get(outcome).kind = "rejected"
              /\ OnlyEventObjects => outcome = Some(Rejected(NoProjectMessage))

ClosedWithoutTerminalFrame ==
    /\ pc = "settled"
    /\ Len(Frames) = MaxFrames
    /\ \A i \in 1..Len(Frames) : IsStatusFrame(Frames[i])
    /\ processed = Frames
    /\ outcome = Some(Rejected(NoProjectMessage))

\* ---- api.generateProject: malformed frames

\* a piece between blank lines that lacks the prefix or whose payload does not
\* parse
IsMalformed(part) == ~HasDataPrefix(part) \/ JsonParse(JsonStr(part)) = None

JoinFrames(parts) == JoinWith(parts, <<"\n", "\n">>)

\* the text without its i-th frame; the frames before a removed last frame keep
\* their blank line
WithoutFrame(text, i) ==
    LET parts == SplitFrames(text)
    IN  IF i = Len(parts)
        THEN JoinFrames(SubSeq(parts, 1, i - 1) \o <<<<>>>>)
        ELSE JoinFrames(SubSeq(parts, 1, i - 1) \o SubSeq(parts, i + 1, Len(parts)))

\* what generateProject does with a text that arrives whole
ReadAll(text, hasCallback) ==
    LET parts == SplitFrames(text)
        inLoop == ProcessParts(LoopState(NoProject, <<>>, <<>>, None),
                               SubSeq(parts, 1, Len(parts) - 1), hasCallback)
        st == IF inLoop.thrown # None THEN inLoop
              ELSE ProcessRemaining(inLoop, parts[Len(parts)])
    IN  [outcome     |-> IF st.thrown # None THEN Some(Rejected(Get(st.thrown)))
                         ELSE ReturnOrThrow(st.projectData),
         statusCalls |-> st.statusCalls,
         processed   |-> st.processed]

\* C12: when generateProject has settled, its outcome, its onStatus calls and
\* the frames it processed are those of the same stream with any one malformed
\* frame (no prefix, or a payload that does not parse) taken out: the frame was
\* skipped and the frames after it were handled as if it had not been there.
MalformedFrameSkipped ==
    pc = "settled" =>
        \A i \in 1..Len(SplitFrames(stream)) :
            IsMalformed(SplitFrames(stream)[i]) =>
                LET clean == ReadAll(WithoutFrame(stream, i), onStatus)
                IN  /\ outcome = clean.outcome
                    /\ statusCalls = clean.statusCalls
                    /\ processed = clean.processed

ResolvedAfterMalformedFrame ==
    /\ pc = "settled"
    /\ stream = <<DataPrefix, "garbage", "\n", "\n", DataPrefix, "done1", "\n", "\n">>
    /\ processed = <<"done1">>
    /\ outcome = Some(Resolved("p1"))

\* ---- api.generateProject: status frames

StatusFrames == SelectSeq(Frames, IsStatusFrame)

\* C13: when generateProject, called with an onStatus callback on a stream of
\* event objects without an error frame, has settled, onStatus has been called
\* once for every status frame of the stream, in stream order, the last frame
\* of the stream included.
EveryStatusFrameForwarded ==
    (pc = "settled" /\ onStatus /\ OnlyEventObjects /\ ~HasErrorFrame) =>
        statusCalls = StatusFrames

\* ---- app.js: the accumulated code

CodesOf(contributions) == [i \in 1..Len(contributions) |-> contributions[i].code]

\* every step before the current one was passed: its part of the accumulated
\* code was entered with nextStep and is code that matched for that step
PassedSteps ==
    /\ currentProject # None
    /\ Len(contrib) = currentStep
    /\ \A i \in 1..Len(contrib) :
          /\ contrib[i].kind = "entered"
          /\ contrib[i].step_num = i
          /\ [project  |-> Get(currentProject).id,
              step_num |-> i,
              code     |-> contrib[i].code] \in matched

AccumulatedIsPassedCode ==
    PassedSteps => accumulatedCode = JoinWith(CodesOf(contrib), <<"\n">>)

RunSendsAccumulated ==
    \A request \in runsInFlight' \ runsInFlight :
        PassedSteps =>
            request = [project_id       |-> Get(currentProject).id,
                       step_num         |-> currentStep + 1,
                       code             |-> codeInput,
                       accumulated_code |-> JoinWith(CodesOf(contrib), <<"\n">>)]

AccumulatedOnlyValidatedCode ==
    ~hiddenNext =>
        \A i \in 1..Len(contrib) :
            contrib[i].kind = "entered" =>
                [project  |-> contrib[i].project,
                 step_num |-> contrib[i].step_num,
                 code     |-> contrib[i].code] \in matched

\* ---- app.js: progress

StepsOf(prog, projectId) == IF HasProgress(prog, projectId) THEN prog[projectId] ELSE {}

MatchedFor(projectId, stepNum) ==
    \E m \in matched' : m.project = projectId /\ m.step_num = stepNum

\* C16: a step number is added to the progress of a project, and markComplete
\* is sent for it, only when an execute response with match = true has been
\* received for that step of that project.
CompleteOnlyOnMatch ==
    [][/\ \A projectId \in DOMAIN progress' :
             \A stepNum \in progress'[projectId] \ StepsOf(progress, projectId) :
                 MatchedFor(projectId, stepNum)
       /\ lastMark' # lastMark =>
             [project  |-> Get(lastMark').project_id,
              step_num |-> Get(lastMark').step_num,
              code     |-> Get(lastMark').code] \in matched']_vars

\* ---- app.js: where a loaded project resumes

StepDone(i) ==
    isStepCompleted(progress, Get(currentProject).id, Get(currentProject).steps[i].step_num)

AtFirstIncompleteStep ==
    IF \A i \in 1..Len(Get(currentProject).steps) : StepDone(i)
    THEN currentStep = 0
    ELSE /\ ~StepDone(currentStep + 1)
         /\ \A i \in 1..currentStep : StepDone(i)

\* C17: a loadProject whose response has arrived either failed and changed
\* nothing, or left currentStep at the first step, in step order, that is not
\* completed: every step before it is completed and it is not; with every step
\* completed currentStep is 0.
LoadResumesAtFirstIncomplete ==
    [][loadsInFlight' # loadsInFlight /\ loadsInFlight' \subseteq loadsInFlight =>
          \/ UNCHANGED <<currentProject, currentStep, accumulatedCode, stepCompleted>>
          \/ AtFirstIncompleteStep']_vars

ResumedAtThirdStep ==
    /\ currentProject # None
    /\ currentStep = 2
    /\ StepsOf(progress, Get(currentProject).id) = {1, 2}
    /\ Len(contrib) = 2
    /\ \A i \in 1..2 : contrib[i].kind = "solution"
    /\ codeInput = <<>>

\* ---- app.js: completion and unlocking

\* every step of the project is completed
Done(projectId) ==
    HasProgress(progress, projectId) /\ (1..server[projectId]) \subseteq progress[projectId]

WasAsked(fn) == asked # None /\ Get(asked).fn = fn

\* C18: isProjectComplete answers true for a project of the list exactly when
\* every step of the project is in its completed set, whatever the number of
\* steps.
CompleteIffAllStepsDone ==
    WasAsked("isProjectComplete") => (Get(asked).result <=> Done(Get(asked).id))

TierAsked(tier) == WasAsked("isTierUnlocked") /\ Get(asked).tier = tier

SomeProjectDone(levelId, tiers) ==
    \E id \in DOMAIN server : LevelOf(id) = levelId /\ TierOf(id) \in tiers /\ Done(id)

\* C19: isTierUnlocked(L, 2) answers true exactly when a basic project of
\* level L has every step completed, and isTierUnlocked(L, 3) exactly when an
\* intermediate project of level L has.
TierUnlockedIffLowerTierDone ==
    /\ TierAsked(2) => (Get(asked).result <=> SomeProjectDone(Get(asked).level, {1}))
    /\ TierAsked(3) => (Get(asked).result <=> SomeProjectDone(Get(asked).level, {2}))

\* C20: isTierUnlocked(1, 1) answers true, and isTierUnlocked(L, 1) for L > 1
\* answers true exactly when some project of level L - 1 has every step
\* completed.
BasicUnlockedIffPreviousLevelDone ==
    TierAsked(1) =>
        IF Get(asked).level = 1 THEN Get(asked).result
        ELSE Get(asked).result <=> SomeProjectDone(Get(asked).level - 1, {1, 2, 3})

\* ---- app.js: progress in localStorage

\* C21: in every state the text under 'mimo_progress' decodes to exactly
\* state.progress, the same project ids with the same step numbers, and a
\* reload, which reads that text into an empty state, leaves every project
\* with the set of step numbers it had before.
ProgressSurvivesReload ==
    /\ [](loadProgressFromStorage(storage) = progress)
    /\ [][lastMark # NoRequest /\ lastMark' = NoRequest => progress' = progress]_vars

BothProjectsReloaded ==
    /\ sent.runs = MaxMarks
    /\ lastMark = NoRequest
    /\ DOMAIN progress = ClientIds
    /\ \E id \in ClientIds : Cardinality(progress[id]) = StepCount
    /\ storage = saveProgressToStorage(progress)

\* ---- app.js: a generation that fails

\* doGenerate takes the rejection of api.generateProject in this step
FailureHandled ==
    /\ dialog # None /\ Get(dialog).phase = "generating"
    /\ outcome # None /\ Get(outcome).kind = "rejected"
    /\ Get(dialog').phase # "generating"

\* C22: when doGenerate takes a rejection of api.generateProject, the button
\* leaves the loading state; with the words 'invalid code' in the message the
\* status line holds the syntax-error text and the button reads Retry,
\* otherwise the status line holds 'Failed: ' and the message and the button
\* reads Generate; no project and no list is asked for and no project is
\* loaded.
GenerateFailureShown ==
    [][FailureHandled =>
          LET msg == MessageText(Get(outcome).value)
              d   == Get(dialog')
          IN  /\ ~d.loading
              /\ IF Includes(msg, "invalid code")
                 THEN d.status = RetryMessage /\ d.button = "Retry"
                 ELSE d.status = <<"Failed: ">> \o msg /\ d.button = "Generate"
              /\ UNCHANGED <<loadsInFlight, listsInFlight, projects, currentProject, latest>>
              /\ loadsInFlight = {} /\ currentProject = None]_vars

RetryOffered ==
    /\ dialog # None /\ Get(dialog).phase = "idle"
    /\ ~Get(dialog).loading
    /\ Get(dialog).button = "Retry"
    /\ Get(dialog).status = RetryMessage
    /\ pc = "idle"

\* ---- api.generateProject: frames after the done frame

DoneReceived == \E i \in 1..Len(processed) : IsDoneFrame(processed[i])

FirstDone ==
    CHOOSE i \in 1..Len(processed) :
        IsDoneFrame(processed[i]) /\ \A j \in 1..(i - 1) : ~IsDoneFrame(processed[j])

\* C23: when generateProject has settled after a done frame that carries a
\* project was received, it has resolved with the project of the first done
\* frame, whatever frames followed it.
DoneFrameIsTerminal ==
    (pc = "settled" /\ DoneReceived /\ EventOf(processed[FirstDone]).project # NoProject) =>
        outcome = Some(Resolved(EventOf(processed[FirstDone]).project))

\* ---- api.generateProject: the chunks of the transport

\* the read loop over a text that arrives in one chunk
LoopOver(text, hasCallback) ==
    LET parts == SplitFrames(text)
    IN  [st   |-> ProcessParts(LoopState(NoProject, <<>>, <<>>, None),
                               SubSeq(parts, 1, Len(parts) - 1), hasCallback),
         kept |-> parts[Len(parts)]]

\* C24: however the stream is cut into chunks, after every chunk the buffer,
\* the project held and the onStatus calls made are those of the text read so
\* far arriving in one chunk, and the settled call has the outcome and the
\* onStatus calls of the whole stream arriving in one chunk.
ChunkingIrrelevant ==
    /\ pc = "read" =>
          LET whole == LoopOver(SubSeq(stream, 1, readPos), onStatus)
          IN  /\ whole.st.thrown = None
              /\ buffer = whole.kept
              /\ projectData = whole.st.projectData
              /\ statusCalls = whole.st.statusCalls
    /\ pc = "settled" =>
          /\ outcome = ReadAll(stream, onStatus).outcome
          /\ statusCalls = ReadAll(stream, onStatus).statusCalls

\* a chunk has ended between the two newlines that end a status frame, and a
\* frame before it has been forwarded
CutInsideTerminator ==
    /\ pc = "read" /\ onStatus
    /\ statusCalls = <<"st1">>
    /\ buffer = <<DataPrefix, "st2", "\n">>
    /\ readPos < Len(stream) /\ stream[readPos + 1] = "\n"

\* ---- app.js: requests in flight

\* the execute request whose response this step has handled
Answered == runsInFlight \ runsInFlight'

\* C25: when the response of an execute request arrives with match = true,
\* the step added to the progress, and the completion posted to the backend,
\* are the step and the project of that request, whatever the learner has
\* loaded or advanced to since the request was sent.
RunRecordsExecutedStep ==
    [][\A request \in Answered :
          feedback' = "match" =>
              /\ progress' = markStepComplete(progress, request.project_id, request.step_num)
              /\ lastMark' = Some([project_id |-> request.project_id,
                                   step_num   |-> request.step_num,
                                   code       |-> request.code])]_vars

\* the getProject request whose response this step has handled
Loaded == loadsInFlight \ loadsInFlight'

ShowsLatest(proj) == proj # None /\ Get(proj).id = Get(latest)

\* C26: when the last of the loadProject calls under way completes, the
\* project shown is the one clicked last: the response of the latest call
\* shows that project at its first incomplete step with the accumulated code
\* built for it (or fails and changes nothing), and the late response of an
\* earlier call does not replace the latest project once it is shown.
LatestLoadWins ==
    [][(Loaded # {} /\ loadsInFlight' = {}) =>
          /\ Loaded = {Get(latest)} =>
                \/ UNCHANGED <<currentProject, currentStep, accumulatedCode, stepCompleted>>
                \/ /\ ShowsLatest(currentProject')
                   /\ AtFirstIncompleteStep'
                   /\ accumulatedCode' =
                         buildAccumulatedCode(Get(currentProject'), currentStep', progress')
          /\ ShowsLatest(currentProject) => ShowsLatest(currentProject')]_vars

\* the getProjects request whose response this step has handled
Listed == listsInFlight \ listsInFlight'

ListOfCurrentLevel == ListOf(server, currentLevel, FALSE)

\* C27: when the last of the project lists awaited arrives, state.projects is
\* the list of the level selected last (state.currentLevel): the list of
\* that level when it is the one that arrives, and still the list of that
\* level when it was shown already and the list of a level selected earlier
\* arrives late.
ProjectsOfCurrentLevel ==
    [][(/\ Listed # {} /\ listsInFlight' = {} /\ projects' # {}
        /\ Listed = {currentLevel} \/ projects = ListOfCurrentLevel) =>
          projects' = ListOfCurrentLevel']_vars

\* ---- app.js: advancing

\* a step of nextStep that has advanced: no project was loaded, the step or
\* the accumulated code has changed
Advanced ==
    /\ loadsInFlight' = loadsInFlight
    /\ currentStep' # currentStep \/ accumulatedCode' # accumulatedCode

\* a run of the step that is shown has matched
CurrentStepMatched ==
    \E m \in matched :
        /\ m.project = Get(currentProject).id
        /\ m.step_num = CurrentStepOf(Get(currentProject), currentStep).step_num

\* C28: nextStep, pressed only while the Next button is shown, changes
\* currentStep or accumulatedCode only when state.stepCompleted is true for
\* the step that is shown, that is, when a run of that step has matched;
\* without a matching run of the step it leaves both as they are.
NextOnlyFromCompletedStep ==
    [][(Advanced /\ ~hiddenNext') => (stepCompleted /\ CurrentStepMatched)]_vars

\* ---- app.js: what a load leaves behind

SolutionsBelow(proj, stepIndex) ==
    JoinWith([i \in 1..stepIndex |-> proj.steps[i].solution], <<"\n">>)

\* C29: a loadProject whose response arrives either failed and left
\* currentProject, currentStep, accumulatedCode and stepCompleted as they
\* were, or made the project asked for the current one, with accumulatedCode
\* the solutions of all steps below currentStep, in step order, joined by
\* newlines, and stepCompleted false.
LoadBuildsFromSolutions ==
    [][\A projectId \in Loaded :
          \/ UNCHANGED <<currentProject, currentStep, accumulatedCode, stepCompleted>>
          \/ /\ currentProject' = Some(ProjectOf(projectId, server[projectId]))
             /\ accumulatedCode' = SolutionsBelow(Get(currentProject'), currentStep')
             /\ ~stepCompleted']_vars

LoadedWithTwoSolutions ==
    /\ currentProject # None /\ loadsInFlight = {}
    /\ sent.loads = 2 /\ sent.runs = 2
    /\ currentStep = 2
    /\ accumulatedCode = <<"s1", "\n", "s2">>
    /\ ~stepCompleted

\* ---- app.js: a run without code

NoCodeFeedback == "Write some code first!"

\* C30: an execute request is sent only for code that is not blank, and the
\* run that shows 'Write some code first!' is one of blank code that sends
\* nothing and leaves currentStep, accumulatedCode, stepCompleted and the
\* progress as they were.
BlankRunChangesNothing ==
    [][/\ \A request \in runsInFlight' \ runsInFlight :
             Trim(request.code) # <<>> /\ request.code = codeInput
       /\ (feedback' = NoCodeFeedback /\ feedback # NoCodeFeedback) =>
             /\ Trim(codeInput) = <<>>
             /\ UNCHANGED <<runsInFlight, sent, currentStep, accumulatedCode, stepCompleted,
                            progress, storage, lastMark, currentProject, codeInput>>]_vars

BlankRunRefused ==
    /\ currentProject # None
    /\ codeInput = <<" ">>
    /\ feedback = NoCodeFeedback
    /\ runsInFlight = {} /\ sent.runs = 0

\* ---- app.js: progress only grows

\* every step number and every project entry of the progress is kept
ProgressKept ==
    \A pid \in DOMAIN progress :
        /\ pid \in DOMAIN progress'
        /\ progress[pid] \subseteq progress'[pid]

\* C31: no step of the page (runCode, nextStep, resetStep, loadProject,
\* selectLevel, their answers, loadProgressFromStorage when the page is opened
\* again) removes a step number from state.progress[p].stepsCompleted or
\* removes a project entry, and a tier that isTierUnlocked reports unlocked
\* before the step is reported unlocked after it.
ProgressIsMonotonic ==
    [][/\ ProgressKept
       /\ \A levelId \in AskedLevels, tier \in {1, 2, 3} :
             isTierUnlocked(progress, levelId, tier) =>
                 isTierUnlocked(progress', levelId, tier)]_vars

\* tier 2 of level 1 was unlocked on the page, a step of another project was
\* completed afterwards, and the page has been opened again since
UnlockedTierSurvives ==
    /\ isTierUnlocked(progress, 1, 2)
    /\ HasProgress(progress, IdOf(1, 2, "scores"))
    /\ progress[IdOf(1, 1, "hello")] = {1, 2, 3}
    /\ sent.runs = MaxRuns
    /\ lastMark = NoRequest /\ currentProject = None

====
